---- MODULE Spec2Model ----
(***************************************************************************)
(* State-machine model of the pdf-rag client: AppShell (chat sessions and  *)
(* their persistence) and ChatComponent (SSE chat / translate streams, the *)
(* PDF library, upload / merge status polling).                            *)
(*                                                                         *)
(* Text is a sequence of symbols.  On the wire a symbol is one byte or an  *)
(* indivisible run of ASCII bytes ("data: ", "[DONE]", ...); "C3","A9" are *)
(* the two bytes of the UTF-8 character U+00E9.  "LF" is the newline.      *)
(***************************************************************************)
EXTENDS Integers, Sequences, FiniteSets, TLC

(***************************************************************************)
(* Bounds of the model.                                                    *)
(***************************************************************************)
MaxLines == 3
MaxRead == 3
MaxMounts == 3
MaxSessions == 3
MaxInflight == 1

(***************************************************************************)
(* Program constants.                                                      *)
(***************************************************************************)
TitleLen == 42

----------------------------------------------------------------------------
(***************************************************************************)
(* Strings.                                                                *)
(***************************************************************************)
Whitespace == {"SP", "CR", "TAB"}

RECURSIVE TrimStart(_)
TrimStart(s) ==
    IF s # <<>> /\ Head(s) \in Whitespace THEN TrimStart(Tail(s)) ELSE s

RECURSIVE TrimEnd(_)
TrimEnd(s) ==
    IF s # <<>> /\ s[Len(s)] \in Whitespace
    THEN TrimEnd(SubSeq(s, 1, Len(s) - 1))
    ELSE s

\* String.prototype.trim
Trim(s) == TrimEnd(TrimStart(s))

\* String.prototype.split('\n'): always at least one segment; the last one is
\* what follows the last newline (possibly empty).
RECURSIVE SplitLF(_, _, _)
SplitLF(s, cur, acc) ==
    IF s = <<>> THEN Append(acc, cur)
    ELSE IF Head(s) = "LF" THEN SplitLF(Tail(s), <<>>, Append(acc, cur))
    ELSE SplitLF(Tail(s), Append(cur, Head(s)), acc)

Split(s) == SplitLF(s, <<>>, <<>>)

\* TextDecoder.decode(value, {stream: true}): an incomplete multi-byte
\* sequence at the end of a read is held back until the next read.
RECURSIVE DecodeFrom(_, _, _)
DecodeFrom(pend, bytes, out) ==
    IF bytes = <<>> THEN [text |-> out, pend |-> pend]
    ELSE LET b == Head(bytes) IN
         IF pend = <<"C3">>
         THEN IF b = "A9"
              THEN DecodeFrom(<<>>, Tail(bytes), Append(out, "U+00E9"))
              ELSE DecodeFrom(<<>>, bytes, Append(out, "U+FFFD"))
         ELSE IF b = "C3" THEN DecodeFrom(<<"C3">>, Tail(bytes), out)
         ELSE IF b = "A9" THEN DecodeFrom(<<>>, Tail(bytes), Append(out, "U+FFFD"))
         ELSE DecodeFrom(<<>>, Tail(bytes), Append(out, b))

Decode(pend, bytes) == DecodeFrom(pend, bytes, <<>>)

\* JSON.parse of an SSE payload.  `{"type":"token","data":"` is the symbol
\* "T", the closing `"}` is "}", `{"type":"meta"}` is "M"; anything else is
\* not JSON and makes JSON.parse throw.
DataChars == {"a", "U+00E9"}

JSONParse(data) ==
    IF data = <<"M">> THEN [ok |-> TRUE, type |-> "meta", data |-> <<>>]
    ELSE IF /\ Len(data) >= 2
            /\ data[1] = "T"
            /\ data[Len(data)] = "}"
            /\ \A i \in 2..(Len(data) - 1) : data[i] \in DataChars
    THEN [ok |-> TRUE, type |-> "token", data |-> SubSeq(data, 2, Len(data) - 1)]
    ELSE [ok |-> FALSE, type |-> "none", data |-> <<>>]

----------------------------------------------------------------------------
(***************************************************************************)
(* Messages and sessions.                                                  *)
(***************************************************************************)
UserMsg(text) == [role |-> "user", content |-> text]
AssistantMsg(text) == [role |-> "assistant", content |-> text]

ChatErrorText == <<"Error: Could not reach the server.">>
TranslateErrorText == <<"Error: Translation failed. Please try again.">>

\* ChatLine with the inner try/catch treating a payload that is not a token
\* event like the terminal marker: the rest of the read is abandoned.
ChatLineAbort(st, line) ==
    IF st.stop THEN st
    ELSE IF line = <<>> \/ Head(line) # "data: " THEN st
    ELSE LET data == Trim(Tail(line)) IN
         IF data = <<"[DONE]">> THEN [st EXCEPT !.stop = TRUE]
         ELSE LET parsed == JSONParse(data) IN
              IF parsed.ok /\ parsed.type = "token" /\ parsed.data # <<>>
              THEN [st EXCEPT !.answer = @ \o parsed.data,
                              !.appended = @ \o parsed.data]
              ELSE [st EXCEPT !.stop = TRUE]

\* The body of the `for (const line of lines)` loop of sendMessage, folded
\* over the lines of one read.  st = [answer, appended, stop]:
\*   answer   - fullAnswer
\*   appended - the text handed to setMessages updaters during this read
\*   stop     - the loop was left by `break`
ChatLine(st, line) ==
    IF st.stop THEN st
    ELSE IF line = <<>> \/ Head(line) # "data: " THEN st
    ELSE LET data == Trim(Tail(line)) IN
         IF data = <<"[DONE]">> THEN [st EXCEPT !.stop = TRUE]
         ELSE LET parsed == JSONParse(data) IN
              IF parsed.ok /\ parsed.type = "token" /\ parsed.data # <<>>
              THEN [st EXCEPT !.answer = @ \o parsed.data,
                              !.appended = @ \o parsed.data]
              ELSE st

RECURSIVE ChatLines(_, _)
ChatLines(st, lines) ==
    IF lines = <<>> THEN st
    ELSE ChatLines(ChatLine(st, Head(lines)), Tail(lines))

\* TranslateLine with a payload that is not a token event ending the read
\* like the terminal marker.
TranslateLineAbort(st, line) ==
    IF st.stop THEN st
    ELSE IF line = <<>> \/ Head(line) # "data: " THEN st
    ELSE LET data == Trim(Tail(line)) IN
         IF data = <<"[DONE]">> THEN [st EXCEPT !.stop = TRUE]
         ELSE LET parsed == JSONParse(data) IN
              IF parsed.ok /\ parsed.type = "token" /\ parsed.data # <<>>
              THEN [st EXCEPT !.answer = @ \o parsed.data,
                              !.appended = @ \o parsed.data]
              ELSE [st EXCEPT !.stop = TRUE]

\* The same loop in handleTranslate.
TranslateLine(st, line) ==
    IF st.stop THEN st
    ELSE IF line = <<>> \/ Head(line) # "data: " THEN st
    ELSE LET data == Trim(Tail(line)) IN
         IF data = <<"[DONE]">> THEN [st EXCEPT !.stop = TRUE]
         ELSE LET parsed == JSONParse(data) IN
              IF parsed.ok /\ parsed.type = "token" /\ parsed.data # <<>>
              THEN [st EXCEPT !.answer = @ \o parsed.data,
                              !.appended = @ \o parsed.data]
              ELSE st

RECURSIVE TranslateLines(_, _)
TranslateLines(st, lines) ==
    IF lines = <<>> THEN st
    ELSE TranslateLines(TranslateLine(st, Head(lines)), Tail(lines))

\* One iteration of the `while (true)` read loop, after reader.read()
\* returned a chunk: decode, buffer, split, keep the last partial line.
\* loc = the local variables of the call.
ReadBody(kind, loc, bytes) ==
    LET dec == Decode(loc.decoder, bytes)
        buf == loc.sseBuffer \o dec.text
        parts == Split(buf)
        lines == SubSeq(parts, 1, Len(parts) - 1)
        st0 == [answer |-> loc.fullAnswer, appended |-> <<>>, stop |-> FALSE]
        st == IF kind = "chat" THEN ChatLines(st0, lines)
              ELSE TranslateLines(st0, lines)
    IN [decoder |-> dec.pend,
        sseBuffer |-> parts[Len(parts)],
        fullAnswer |-> st.answer,
        appended |-> st.appended]

----------------------------------------------------------------------------
(***************************************************************************)
(* State.                                                                  *)
(***************************************************************************)
VARIABLES
    \* AppShell
    historyLoading,     \* useState(true)
    localStorage,       \* the browser's localStorage: the items set by the client
    sessions,           \* Session[]; sessionsRef.current is its value at the
                        \* last render, i.e. its value when a handler starts
    activeSessionId,    \* '' is 0
    nextId,             \* source of generateId()
    saves,              \* POST /history/session requests sent, in order
    \* the mounted ChatComponent (key = activeSession.id)
    inst,               \* identity of the mounted instance; 0: none mounted
    messages,
    loading,
    translatingPdf,     \* null is "null"
    suggestions,
    suggestionsLoading,
    editingIndex,       \* index of the message being edited; null is -1
    editValue,          \* text of the edit box
    resend,             \* the setTimeout(..., 0) of submitEdit: <<>> or
                        \* <<[text, comp, before]>> while it is pending
    voiceTimer,         \* the setTimeout(..., 0) of recognition.onend: <<>>
                        \* or <<[text, comp]>> while it is pending
    staleRender,        \* <<>> when the component has rendered its state;
                        \* <<[loading, messages]>>, the values its latest
                        \* render (and so sendMessageRef.current) closed
                        \* over, while a render is scheduled
    pdfLibrary,
    previewPdfName,     \* null is "null"
    mergeSelected,
    mergeName,
    mergeLoading,
    uploadStatus,
    uploadedFileName,   \* null is "null"
    uploadedFileServerName,
    pendingUploadRef,   \* pendingUploadRef.current: <<>> for null, or <<pending>>
    \* the browser: object URLs created and revoked
    nextBlob,
    revoked,
    \* running handleFileChange / handleMerge invocations and their pollers,
    \* running handleDeletePdf invocations
    jobs,
    nJobs,
    dels,
    \* the server: ingestion status of every document
    srv,
    polledDone,         \* history: documents a status poll has returned `done` for
    \* running sendMessage / handleTranslate invocations (their closures)
    calls,
    nCalls

shellVars == <<historyLoading, localStorage, sessions, activeSessionId, nextId, saves>>
compVars == <<inst, messages, loading, translatingPdf, suggestions, suggestionsLoading>>
editVars == <<editingIndex, editValue, resend, voiceTimer, staleRender>>
uploadVars == <<uploadStatus, uploadedFileName, uploadedFileServerName, pendingUploadRef>>
mergeVars == <<mergeSelected, mergeName, mergeLoading>>
browserVars == <<nextBlob, revoked>>
jobVars == <<jobs, nJobs, dels>>
srvVars == <<srv, polledDone>>
libVars == <<pdfLibrary, previewPdfName, uploadVars, mergeVars, browserVars, jobVars, srvVars>>
callVars == <<calls, nCalls>>
vars == <<shellVars, compVars, editVars, libVars, callVars>>

\* Slots for sendMessage / handleTranslate invocations.
CallIds == {1, 2}

IdleCall ==
    [pc |-> "idle", kind |-> "chat", comp |-> 0, sessionId |-> 0,
     userMsg |-> UserMsg(<<>>), before |-> <<>>, history |-> <<>>,
     active_pdfs |-> <<>>, fullAnswer |-> <<>>, hadError |-> FALSE,
     sseBuffer |-> <<>>, decoder |-> <<>>, wire |-> <<>>,
     \* history variables of the invocation (not program state)
     rcvd |-> <<>>,          \* every byte reader.read() has returned
     ended |-> "no",         \* how the request ended: "no" | "fetch" (no
                             \* body) | "eof" | "error" (read rejected)
     loadingOff |-> 0,       \* setLoading(false) invocations
     saved |-> 0,            \* onSaveSession invocations
     savedMsgs |-> <<>>,     \* argument of the last onSaveSession invocation
     cancelled |-> FALSE,    \* the component was unmounted while it ran
     cancelAnswer |-> <<>>]  \* fullAnswer at that moment

\* No exchange has been started yet: the specifications of a single exchange
\* take sendMessage and handleTranslate in this state only.
FirstCall == nCalls = 0

\* React ignores state setters of an unmounted component.
Mounted(c) == calls[c].comp = inst

Running(c) == calls[c].pc \in {"fetch", "read", "suggest"}

----------------------------------------------------------------------------
(***************************************************************************)
(* AppShell.                                                               *)
(***************************************************************************)
\* localStorage after getAnonymousUserId() has run (useMemo of the first
\* render): the one item the client stores, 'anon_user_id'.  An item is
\* [key, text, sessions]: its string value, and the sessions a value holds.
getAnonymousUserId ==
    {[key |-> "anon_user_id", text |-> "anon_1", sessions |-> <<>>]}

createSession(id) == [id |-> id, title |-> <<"New Chat">>, messages |-> <<>>]

\* firstUser.content.slice(0, 42) + (firstUser.content.length > 42 ? '…' : '')
TitleOf(content) ==
    IF Len(content) > TitleLen
    THEN SubSeq(content, 1, TitleLen) \o <<"ELLIPSIS">>
    ELSE content

FirstUser(msgs) ==
    LET idx == {i \in 1..Len(msgs) : msgs[i].role = "user"} IN
    IF idx = {} THEN 0 ELSE CHOOSE i \in idx : \A j \in idx : i <= j

DerivedTitle(msgs, old) ==
    IF FirstUser(msgs) = 0 THEN old ELSE TitleOf(msgs[FirstUser(msgs)].content)

\* sessions.find((s) => s.id === id): its index, or 0
FindSession(ss, id) ==
    LET idx == {i \in 1..Len(ss) : ss[i].id = id} IN
    IF idx = {} THEN 0 ELSE CHOOSE i \in idx : \A j \in idx : i <= j

\* the setSessions updater of handleMessagesChange
handleMessagesChange(ss, sid, msgs) ==
    [i \in 1..Len(ss) |->
        IF ss[i].id # sid THEN ss[i]
        ELSE [ss[i] EXCEPT !.messages = msgs,
                           !.title = DerivedTitle(msgs, ss[i].title)]]

\* the setSessions updater of handleSaveSession
handleSaveSessionState(ss, sid, finalMessages) ==
    [i \in 1..Len(ss) |->
        IF ss[i].id # sid THEN ss[i]
        ELSE [ss[i] EXCEPT !.messages = finalMessages,
                           !.title = DerivedTitle(finalMessages, ss[i].title)]]

\* handleSaveSession then saveSessionToBackend: the request that goes out is
\* built from sessionsRef.current (ref), not from the updater's result.
handleSaveSessionPosts(ref, sid, finalMessages) ==
    LET i == FindSession(ref, sid) IN
    IF i = 0 THEN <<>>
    ELSE <<[session_id |-> ref[i].id, title |-> ref[i].title,
            messages |-> finalMessages]>>

----------------------------------------------------------------------------
(***************************************************************************)
(* ChatComponent: sendMessage and handleTranslate.                         *)
(***************************************************************************)
\* updated[updated.length - 1] = {...last, content: last.content + text}
AppendToLast(msgs, text) ==
    IF msgs = <<>> THEN msgs
    ELSE [msgs EXCEPT ![Len(msgs)].content = @ \o text]

\* updated[updated.length - 1] = {role: 'assistant', content: text}
ReplaceLast(msgs, text) ==
    IF msgs = <<>> THEN msgs
    ELSE [msgs EXCEPT ![Len(msgs)] = AssistantMsg(text)]

ErrorText(kind) == IF kind = "chat" THEN ChatErrorText ELSE TranslateErrorText

\* `!hadError && fullAnswer.trim()` (resp. fullText.trim()) of the finally block
SavesExchange(hadError, answer) == ~hadError /\ Trim(answer) # <<>>

FinalMessages(c, answer) ==
    calls[c].before \o <<calls[c].userMsg, AssistantMsg(answer)>>

\* Finally with onSaveSession called for the session that is active when the
\* stream ends, not for the sessionId prop of the call's component.
FinallyActiveSession(c, loc, msgs) ==
    LET save == SavesExchange(loc.hadError, loc.fullAnswer)
        final == FinalMessages(c, loc.fullAnswer)
        sid == activeSessionId
        afterSave == IF save THEN handleSaveSessionState(sessions, sid, final)
                     ELSE sessions
    IN /\ calls' = [calls EXCEPT ![c] =
                      [loc EXCEPT !.pc = "done",
                                  !.loadingOff = @ + 1,
                                  !.saved = IF save THEN @ + 1 ELSE @,
                                  !.savedMsgs = IF save THEN final ELSE @]]
       /\ saves' = IF save
                   THEN saves \o handleSaveSessionPosts(sessions, sid, final)
                   ELSE saves
       /\ IF Mounted(c)
          THEN /\ messages' = msgs
               /\ loading' = FALSE
               /\ translatingPdf' = IF calls[c].kind = "translate" THEN "null"
                                    ELSE translatingPdf
               /\ sessions' = handleMessagesChange(afterSave, sid, msgs)
          ELSE /\ sessions' = afterSave
               /\ UNCHANGED <<messages, loading, translatingPdf>>

\* The finally block of sendMessage / handleTranslate for call c, whose local
\* variables end as loc, with msgs the component's messages after the updaters
\* queued so far; followed by the render it causes and, in a mounted
\* component, the `loading` effect that reports messagesRef.current upwards.
Finally(c, loc, msgs) ==
    LET save == SavesExchange(loc.hadError, loc.fullAnswer)
        final == FinalMessages(c, loc.fullAnswer)
        sid == calls[c].sessionId
        afterSave == IF save THEN handleSaveSessionState(sessions, sid, final)
                     ELSE sessions
    IN /\ calls' = [calls EXCEPT ![c] =
                      [loc EXCEPT !.pc = "done",
                                  !.loadingOff = @ + 1,
                                  !.saved = IF save THEN @ + 1 ELSE @,
                                  !.savedMsgs = IF save THEN final ELSE @]]
       /\ saves' = IF save
                   THEN saves \o handleSaveSessionPosts(sessions, sid, final)
                   ELSE saves
       /\ IF Mounted(c)
          THEN /\ messages' = msgs
               /\ loading' = FALSE
               /\ translatingPdf' = IF calls[c].kind = "translate" THEN "null"
                                    ELSE translatingPdf
               /\ sessions' = handleMessagesChange(afterSave, sid, msgs)
          ELSE /\ sessions' = afterSave
               /\ UNCHANGED <<messages, loading, translatingPdf>>

\* CatchFinally with setLoading(false) at the end of the try block instead of
\* in a finally block: the error path never resets `loading`.
CatchNoFinally(c, loc) ==
    /\ calls' = [calls EXCEPT ![c] = [loc EXCEPT !.pc = "done", !.hadError = TRUE]]
    /\ messages' = IF Mounted(c)
                   THEN ReplaceLast(messages, ErrorText(calls[c].kind))
                   ELSE messages
    /\ UNCHANGED <<saves, loading, translatingPdf, sessions>>

\* The catch block, then the finally block.
CatchFinally(c, loc) ==
    Finally(c, [loc EXCEPT !.hadError = TRUE],
            ReplaceLast(messages, ErrorText(calls[c].kind)))

\* The body of sendMessage(overrideText ?? input), up to its first await, as
\* the closure of a render in which `loading` and `messages` had the values
\* cl.loading and cl.messages; the functional updaters run on the state.
sendMessageFrom(text, cl) ==
    /\ inst # 0
    /\ LET trimmed == Trim(text) IN
       IF trimmed = <<>> \/ cl.loading
       THEN UNCHANGED <<shellVars, compVars, libVars, callVars>>
       ELSE /\ nCalls < Cardinality(CallIds)
            /\ nCalls' = nCalls + 1
            /\ suggestions' = <<>>
            /\ messages' = messages \o <<UserMsg(trimmed), AssistantMsg(<<>>)>>
            /\ loading' = TRUE
            /\ calls' = [calls EXCEPT ![nCalls + 1] =
                   [IdleCall EXCEPT
                      !.pc = "fetch", !.kind = "chat", !.comp = inst,
                      !.sessionId = activeSessionId,
                      !.userMsg = UserMsg(trimmed),
                      !.before = cl.messages,
                      !.history = cl.messages,
                      !.active_pdfs = [i \in 1..Len(pdfLibrary) |-> pdfLibrary[i].name]]]
            /\ UNCHANGED <<shellVars, inst, translatingPdf, suggestionsLoading, libVars>>

\* sendMessage of the render of the current state.
sendMessageCall(text) ==
    sendMessageFrom(text, [loading |-> loading, messages |-> messages])

\* sendMessage invoked from the send button, the Enter key or a suggestion.
sendMessage(text) ==
    /\ sendMessageCall(text)
    /\ UNCHANGED editVars

\* The pencil button of message i (shown for a user message with content,
\* not being edited, while nothing is loading).
startEdit(i) ==
    /\ inst # 0
    /\ ~loading
    /\ i \in 0..(Len(messages) - 1)
    /\ messages[i + 1].role = "user"
    /\ messages[i + 1].content # <<>>
    /\ editingIndex # i
    /\ editingIndex' = i
    /\ editValue' = messages[i + 1].content
    /\ UNCHANGED <<shellVars, compVars, resend, voiceTimer, staleRender, libVars,
                   callVars>>

\* The edit box is rendered in place of message editingIndex.
EditBoxOpen == inst # 0 /\ editingIndex \in 0..(Len(messages) - 1)

\* onChange of the edit box
setEditValue(v) ==
    /\ EditBoxOpen
    /\ editValue' = v
    /\ UNCHANGED <<shellVars, compVars, editingIndex, resend, voiceTimer,
                   staleRender, libVars, callVars>>

cancelEdit ==
    /\ EditBoxOpen
    /\ editingIndex' = -1
    /\ editValue' = <<>>
    /\ UNCHANGED <<shellVars, compVars, resend, voiceTimer, staleRender, libVars,
                   callVars>>

\* Enter or Send in the edit box.
submitEdit ==
    /\ EditBoxOpen
    /\ IF Trim(editValue) = <<>> \/ editingIndex = -1
       THEN UNCHANGED vars
       ELSE /\ resend = <<>>
            /\ messages' = SubSeq(messages, 1, editingIndex)
            /\ editingIndex' = -1
            /\ editValue' = <<>>
            /\ resend' = <<[text |-> Trim(editValue), comp |-> inst,
                            \* history variable: the messages kept
                            before |-> SubSeq(messages, 1, editingIndex)]>>
            /\ UNCHANGED <<shellVars, inst, loading, translatingPdf, suggestions,
                           suggestionsLoading, voiceTimer, staleRender,
                           libVars, callVars>>

\* The timer of submitEdit fires: sendMessageRef.current?.(text), the
\* sendMessage of the latest render.  (The timer of a component that was
\* unmounted in between is left pending.)
EditResend ==
    /\ resend # <<>>
    /\ resend[1].comp = inst
    /\ sendMessageCall(resend[1].text)
    /\ resend' = <<>>
    /\ UNCHANGED <<editingIndex, editValue, voiceTimer, staleRender>>

\* The values closed over by sendMessageRef.current: those of the latest
\* render.
Closure ==
    IF staleRender # <<>> THEN staleRender[1]
    ELSE [loading |-> loading, messages |-> messages]

\* A state update made in a timer callback is rendered in a later task:
\* until then sendMessageRef.current is the sendMessage of the render before.
RenderScheduled ==
    staleRender' = IF loading' # loading \/ messages' # messages
                   THEN <<Closure>> ELSE staleRender

\* The scheduled render runs: sendMessageRef.current = sendMessage.
Render ==
    /\ staleRender # <<>>
    /\ staleRender' = <<>>
    /\ UNCHANGED <<shellVars, compVars, editingIndex, editValue, resend,
                   voiceTimer, libVars, callVars>>

\* recognition.onend with a final transcript: setInput(''), and
\* sendMessageRef.current is called from a timer of 0 ms.
recognitionEnds(transcript) ==
    /\ inst # 0
    /\ voiceTimer = <<>>
    /\ Trim(transcript) # <<>>
    /\ voiceTimer' = <<[text |-> Trim(transcript), comp |-> inst]>>
    /\ UNCHANGED <<shellVars, compVars, editingIndex, editValue, resend,
                   staleRender, libVars, callVars>>

\* A timer of submitEdit or of recognition.onend fires: the call of
\* sendMessageRef.current, possibly before the render of an earlier timer's
\* updates.
TimerSends(which) ==
    /\ LET t == IF which = "edit" THEN resend ELSE voiceTimer IN
       /\ t # <<>>
       /\ t[1].comp = inst
       /\ sendMessageFrom(t[1].text, Closure)
    /\ RenderScheduled
    /\ resend' = IF which = "edit" THEN <<>> ELSE resend
    /\ voiceTimer' = IF which = "voice" THEN <<>> ELSE voiceTimer
    /\ UNCHANGED <<editingIndex, editValue>>

\* handleTranslate(filename, lang), up to its first await.
handleTranslate(filename) ==
    /\ inst # 0
    /\ \E i \in 1..Len(pdfLibrary) : pdfLibrary[i].name = filename
    /\ IF translatingPdf # "null" \/ loading
       THEN UNCHANGED vars
       ELSE /\ nCalls < Cardinality(CallIds)
            /\ nCalls' = nCalls + 1
            /\ translatingPdf' = filename
            /\ messages' = messages \o
                   <<UserMsg(<<"Translate ", filename, " to French">>), AssistantMsg(<<>>)>>
            /\ loading' = TRUE
            /\ calls' = [calls EXCEPT ![nCalls + 1] =
                   [IdleCall EXCEPT
                      !.pc = "fetch", !.kind = "translate", !.comp = inst,
                      !.sessionId = activeSessionId,
                      !.userMsg = UserMsg(<<"Translate ", filename, " to French">>),
                      !.before = messages]]
            /\ UNCHANGED <<shellVars, inst, editVars, suggestions, suggestionsLoading, libVars>>

\* fetch rejects, or resolves with !res.ok or without a body: throw -> catch.
FetchFails(c) ==
    /\ calls[c].pc = "fetch"
    /\ CatchFinally(c, [calls[c] EXCEPT !.ended = "fetch"])
    /\ UNCHANGED <<historyLoading, localStorage, activeSessionId, nextId, inst, editVars, suggestions,
                   suggestionsLoading, libVars, nCalls>>

\* fetch resolves with a body; the server will write `stream` to it.
FetchResponds(c, stream) ==
    /\ calls[c].pc = "fetch"
    /\ calls' = [calls EXCEPT ![c].pc = "read", ![c].wire = stream]
    /\ UNCHANGED <<shellVars, compVars, editVars, libVars, nCalls>>

\* The sizes of the next read: up to MaxRead bytes, or all there is.
ReadSizes(c) == (1..MaxRead) \cup {Len(calls[c].wire)}

\* reader.read() resolves with the next n bytes of the body.
ReadChunk(c, n) ==
    /\ calls[c].pc = "read"
    /\ n \in 1..Len(calls[c].wire)
    /\ LET bytes == SubSeq(calls[c].wire, 1, n)
           r == ReadBody(calls[c].kind, calls[c], bytes)
       IN /\ calls' = [calls EXCEPT
                 ![c].wire = SubSeq(calls[c].wire, n + 1, Len(calls[c].wire)),
                 ![c].rcvd = @ \o bytes,
                 ![c].decoder = r.decoder,
                 ![c].sseBuffer = r.sseBuffer,
                 ![c].fullAnswer = r.fullAnswer]
          /\ messages' = IF Mounted(c) THEN AppendToLast(messages, r.appended)
                         ELSE messages
          \* with no message left, `updated[updated.length - 1].content`
          \* throws in the updater: the render fails and React unmounts
          \* the tree
          /\ inst' = IF Mounted(c) /\ messages = <<>> /\ r.appended # <<>>
                     THEN 0 ELSE inst
    /\ UNCHANGED <<shellVars, editVars, loading, translatingPdf, suggestions,
                   suggestionsLoading, libVars, nCalls>>

\* reader.read() resolves with done: the body ended (the server closed it,
\* after everything it wrote or earlier).  The loop is left; sendMessage goes
\* on to the suggestions request when there is an answer.
ReadDone(c) ==
    /\ calls[c].pc = "read"
    /\ LET loc == [calls[c] EXCEPT !.ended = "eof", !.wire = <<>>] IN
       IF calls[c].kind = "chat" /\ Trim(calls[c].fullAnswer) # <<>>
       THEN /\ calls' = [calls EXCEPT ![c] = [loc EXCEPT !.pc = "suggest"]]
            /\ suggestionsLoading' = IF Mounted(c) THEN TRUE ELSE suggestionsLoading
            /\ UNCHANGED <<shellVars, inst, editVars, messages, loading, translatingPdf,
                           suggestions, libVars, nCalls>>
       ELSE /\ Finally(c, loc, messages)
            /\ UNCHANGED <<historyLoading, localStorage, activeSessionId, nextId, inst, editVars,
                           suggestions, suggestionsLoading, libVars, nCalls>>

\* reader.read() rejects (connection reset): catch, finally.
ReadFails(c) ==
    /\ calls[c].pc = "read"
    /\ CatchFinally(c, [calls[c] EXCEPT !.ended = "error", !.wire = <<>>])
    /\ UNCHANGED <<historyLoading, localStorage, activeSessionId, nextId, inst, editVars, suggestions,
                   suggestionsLoading, libVars, nCalls>>

\* GET /suggestions settles: sug is the list it carries (<<>> also stands for
\* a response that is not ok and for a rejected fetch, which leave the
\* suggestions as they are).
SuggestionsSettle(c, ok, sug) ==
    /\ calls[c].pc = "suggest"
    /\ Finally(c, calls[c], messages)
    /\ suggestions' = IF Mounted(c) /\ ok THEN sug ELSE suggestions
    /\ suggestionsLoading' = IF Mounted(c) THEN FALSE ELSE suggestionsLoading
    /\ UNCHANGED <<historyLoading, localStorage, activeSessionId, nextId, inst, editVars, libVars, nCalls>>

----------------------------------------------------------------------------
(***************************************************************************)
(* AppShell handlers.  ChatComponent is keyed by the active session's id:  *)
(* a change of activeSessionId unmounts the component (its state is gone,  *)
(* its running handlers go on) and mounts a new one.                       *)
(***************************************************************************)
\* The calls of the component being unmounted keep running; note what they
\* had accumulated at that moment.
Unmounted(cs) ==
    [c \in CallIds |->
        IF cs[c].comp = inst /\ cs[c].pc \in {"fetch", "read", "suggest"}
        THEN [cs[c] EXCEPT !.cancelled = TRUE, !.cancelAnswer = cs[c].fullAnswer]
        ELSE cs[c]]

\* Mount of ChatComponent for session ss[i] (useState initial values), and
\* its first `loading` effect: onMessagesChange(sessionId, initialMessages).
Mount(ss, i) ==
    /\ inst < MaxMounts
    /\ inst' = inst + 1
    /\ messages' = ss[i].messages
    /\ loading' = FALSE
    /\ translatingPdf' = "null"
    /\ suggestions' = <<>>
    /\ suggestionsLoading' = FALSE
    /\ editingIndex' = -1
    /\ editValue' = <<>>
    /\ UNCHANGED <<resend, voiceTimer, staleRender>>
    /\ pdfLibrary' = <<>>
    /\ previewPdfName' = "null"
    /\ mergeSelected' = <<>>
    /\ mergeName' = <<>>
    /\ mergeLoading' = FALSE
    /\ uploadStatus' = "idle"
    /\ uploadedFileName' = "null"
    /\ uploadedFileServerName' = "null"
    /\ pendingUploadRef' = <<>>
    /\ UNCHANGED <<browserVars, jobVars, srvVars>>
    /\ sessions' = handleMessagesChange(ss, ss[i].id, ss[i].messages)
    /\ calls' = Unmounted(calls)

\* GET /history settled: `loaded` is data.sessions (<<>> also stands for a
\* failed or timed-out request: both start with one blank session).
HistoryLoaded(loaded) ==
    /\ historyLoading
    /\ historyLoading' = FALSE
    /\ localStorage' = localStorage
    /\ LET ss == IF loaded # <<>> THEN loaded ELSE <<createSession(nextId)>> IN
       /\ activeSessionId' = ss[1].id
       /\ nextId' = nextId + 1
       /\ Mount(ss, 1)
    /\ UNCHANGED <<saves, nCalls>>

handleNewChat ==
    /\ ~historyLoading
    /\ nextId <= MaxSessions
    /\ LET ss == <<createSession(nextId)>> \o sessions IN
       /\ nextId' = nextId + 1
       /\ activeSessionId' = nextId
       /\ Mount(ss, 1)
    /\ UNCHANGED <<historyLoading, localStorage, saves, nCalls>>

handleSelectSession(id) ==
    /\ ~historyLoading
    /\ FindSession(sessions, id) # 0
    /\ id # activeSessionId
    /\ activeSessionId' = id
    /\ Mount(sessions, FindSession(sessions, id))
    /\ UNCHANGED <<historyLoading, localStorage, nextId, saves, nCalls>>

\* sessions.filter((s) => s.id !== id)
RECURSIVE WithoutSession(_, _)
WithoutSession(ss, id) ==
    IF ss = <<>> THEN <<>>
    ELSE IF Head(ss).id = id THEN WithoutSession(Tail(ss), id)
    ELSE <<Head(ss)>> \o WithoutSession(Tail(ss), id)

\* handleDeleteSession that only filters the list.
handleDeleteSessionFilterOnly(id) ==
    /\ ~historyLoading
    /\ FindSession(sessions, id) # 0
    /\ sessions' = WithoutSession(sessions, id)
    /\ UNCHANGED <<historyLoading, localStorage, activeSessionId, nextId, saves,
                   compVars, editVars, libVars, callVars>>

handleDeleteSession(id) ==
    /\ ~historyLoading
    /\ FindSession(sessions, id) # 0
    /\ LET next == WithoutSession(sessions, id) IN
       IF id # activeSessionId
       THEN /\ sessions' = next
            /\ UNCHANGED <<historyLoading, localStorage, activeSessionId, nextId, saves,
                           compVars, editVars, libVars, callVars>>
       ELSE IF next # <<>>
       THEN /\ activeSessionId' = next[1].id
            /\ Mount(next, 1)
            /\ UNCHANGED <<historyLoading, localStorage, nextId, saves, nCalls>>
       ELSE /\ nextId <= MaxSessions
            /\ activeSessionId' = nextId
            /\ nextId' = nextId + 1
            /\ Mount(<<createSession(nextId)>>, 1)
            /\ UNCHANGED <<historyLoading, localStorage, saves, nCalls>>

----------------------------------------------------------------------------
(***************************************************************************)
(* The server's side of a document: the ingestion pipeline and library    *)
(* manager of the specification (sections 4.2, 4.3 and 6), as seen through *)
(* the requests the client sends.                                          *)
(***************************************************************************)
Names == {"A.pdf", "B.pdf", "M.pdf", "merged_1.pdf", "merged_2.pdf"}

\* POST upload: submit(document); a resubmission supersedes.
ServerUpload(st, f) == [st EXCEPT ![f] = "embedding"]

\* DELETE document/{id}: idempotent, cancels a running ingestion.
ServerDelete(st, f) == [st EXCEPT ![f] = "absent"]

\* POST merge: at least two documents, all of them ready.
ServerAcceptsMerge(st, filenames) ==
    /\ Len(filenames) >= 2
    /\ \A i \in 1..Len(filenames) : st[filenames[i]] = "ready"

\* data.filename of the merge response for output_name: the document id
\* the output name stands for.
MergedFile(outName) ==
    CASE outName = <<"M">> -> "M.pdf"
      [] outName = <<"A">> -> "A.pdf"
      [] outName = <<"merged_", 1>> -> "merged_1.pdf"
      [] OTHER -> "merged_2.pdf"

\* GET status: the `status` field of the response.
StatusOf(s) ==
    CASE s = "ready" -> "done"
      [] s = "failed" -> "error"
      [] s = "embedding" -> "processing"
      [] OTHER -> "not_found"

\* The ingestion job of f commits its last chunk / fails and rolls back.
IngestSucceeds(f) ==
    /\ srv[f] = "embedding"
    /\ srv' = [srv EXCEPT ![f] = "ready"]
    /\ UNCHANGED <<shellVars, compVars, editVars, callVars, pdfLibrary, previewPdfName,
                   uploadVars, mergeVars, browserVars, jobVars, polledDone>>

IngestFails(f) ==
    /\ srv[f] = "embedding"
    /\ srv' = [srv EXCEPT ![f] = "failed"]
    /\ UNCHANGED <<shellVars, compVars, editVars, callVars, pdfLibrary, previewPdfName,
                   uploadVars, mergeVars, browserVars, jobVars, polledDone>>

----------------------------------------------------------------------------
(***************************************************************************)
(* ChatComponent: the PDF library, upload, merge and delete.               *)
(***************************************************************************)
MAX_POLLS == 30

PdfEntry(name, displayName, objectUrl) ==
    [name |-> name, displayName |-> displayName, objectUrl |-> objectUrl]

\* URL.createObjectURL(file): 'blob:...'
BlobUrl(n) == [scheme |-> "blob", ref |-> n]

\* `http://localhost:8000/pdf/download/${encodeURIComponent(serverName)}`
DownloadUrl(name) == [scheme |-> "http", ref |-> name]

LibNames(lib) == {lib[i].name : i \in 1..Len(lib)}

\* prev.filter((p) => p.name !== name)
WithoutPdf(lib, name) == SelectSeq(lib, LAMBDA p : p.name # name)

\* An updater that appends without filtering.
WithPdfAppended(lib, e) == lib \o <<e>>

\* [...prev.filter((p) => p.name !== e.name), e]
WithPdf(lib, e) == WithoutPdf(lib, e.name) \o <<e>>

\* prev.filter((n) => n !== name)
WithoutName(sel, name) == SelectSeq(sel, LAMBDA n : n # name)

\* file.name.endsWith('.pdf')
EndsWithPdf(f) == f \in Names

JobIds == {1, 2}

IdleJob ==
    [pc |-> "idle", kind |-> "upload", comp |-> 0, file |-> "null",
     serverName |-> "null", filenames |-> <<>>, outName |-> <<>>,
     count |-> 0,           \* pollCount / count
     inflight |-> 0,        \* status requests sent and not yet answered
     \* history variables of the invocation
     gaveUp |-> FALSE,      \* the poller reached its bound
     sawError |-> FALSE,    \* a status poll returned `error`
     reqLib |-> {},         \* names in the library when the request was sent
     setStatus |-> "none"]  \* the last value it passed to setUploadStatus

DelIds == {1, 2}

IdleDel == [pc |-> "idle", name |-> "null", preview |-> "null", comp |-> 0]

JobMounted(j) == jobs[j].comp = inst

\* Move the pending upload into the library, if there is one.
PendingToLibrary(serverFilename) ==
    IF pendingUploadRef # <<>>
    THEN /\ pdfLibrary' = WithPdf(pdfLibrary,
                PdfEntry(serverFilename, pendingUploadRef[1].displayName,
                         pendingUploadRef[1].objectUrl))
         /\ pendingUploadRef' = <<>>
    ELSE UNCHANGED <<pdfLibrary, pendingUploadRef>>

\* handleFileChange, up to its await of the upload request.
handleFileChange(f) ==
    /\ inst # 0
    /\ uploadStatus \notin {"uploading", "embedding"}
    /\ IF ~EndsWithPdf(f)
       THEN /\ uploadStatus' = "error"
            /\ uploadedFileName' = "Only PDF files are accepted"
            /\ UNCHANGED <<uploadedFileServerName, pendingUploadRef,
                           browserVars, jobVars>>
       ELSE /\ nJobs < Cardinality(JobIds)
            /\ nJobs' = nJobs + 1
            /\ uploadedFileName' = f
            /\ uploadStatus' = "uploading"
            /\ pendingUploadRef' = <<[displayName |-> f, objectUrl |-> BlobUrl(nextBlob)]>>
            /\ nextBlob' = nextBlob + 1
            /\ jobs' = [jobs EXCEPT ![nJobs + 1] =
                   [IdleJob EXCEPT !.pc = "upload", !.kind = "upload",
                                   !.comp = inst, !.file = f,
                                   !.setStatus = "uploading"]]
            /\ UNCHANGED <<uploadedFileServerName, revoked, dels>>
    /\ UNCHANGED <<shellVars, compVars, editVars, callVars, pdfLibrary, previewPdfName,
                   mergeVars, srvVars>>

\* A catch that also empties the merge selection.
UploadFailsClearing(j) ==
    /\ jobs[j].pc = "upload"
    /\ jobs' = [jobs EXCEPT ![j].pc = "stopped", ![j].setStatus = "error"]
    /\ uploadStatus' = IF JobMounted(j) THEN "error" ELSE uploadStatus
    /\ mergeSelected' = <<>>
    /\ UNCHANGED <<shellVars, compVars, editVars, callVars, pdfLibrary, previewPdfName,
                   uploadedFileName, uploadedFileServerName, pendingUploadRef,
                   mergeName, mergeLoading, browserVars, nJobs, dels, srvVars>>

\* The upload request rejects or answers !res.ok: catch.
UploadFails(j) ==
    /\ jobs[j].pc = "upload"
    /\ jobs' = [jobs EXCEPT ![j].pc = "stopped", ![j].setStatus = "error"]
    /\ uploadStatus' = IF JobMounted(j) THEN "error" ELSE uploadStatus
    /\ UNCHANGED <<shellVars, compVars, editVars, callVars, pdfLibrary, previewPdfName,
                   uploadedFileName, uploadedFileServerName, pendingUploadRef,
                   mergeVars, browserVars, nJobs, dels, srvVars>>

\* The server accepted the upload: the poller is started.
UploadResponds(j) ==
    /\ jobs[j].pc = "upload"
    /\ srv' = ServerUpload(srv, jobs[j].file)
    /\ jobs' = [jobs EXCEPT ![j].pc = "poll", ![j].serverName = jobs[j].file,
                            ![j].setStatus = "embedding"]
    /\ IF JobMounted(j)
       THEN /\ uploadedFileServerName' = jobs[j].file
            /\ uploadStatus' = "embedding"
       ELSE UNCHANGED <<uploadedFileServerName, uploadStatus>>
    /\ UNCHANGED <<shellVars, compVars, editVars, callVars, pdfLibrary, previewPdfName,
                   uploadedFileName, pendingUploadRef, mergeVars, browserVars,
                   nJobs, dels, polledDone>>

\* A poller whose bound only clears the interval, without a status.
PollTickSilent(j) ==
    /\ jobs[j].pc = "poll"
    /\ IF jobs[j].count + 1 >= MAX_POLLS
       THEN /\ jobs' = [jobs EXCEPT ![j].pc = "stopped", ![j].count = 0,
                                    ![j].gaveUp = TRUE]
            /\ UNCHANGED <<uploadStatus, pdfLibrary, pendingUploadRef>>
       ELSE /\ jobs[j].inflight < MaxInflight
            /\ jobs' = [jobs EXCEPT ![j].count = @ + 1, ![j].inflight = @ + 1]
            /\ UNCHANGED <<uploadStatus, pdfLibrary, pendingUploadRef>>
    /\ UNCHANGED <<shellVars, compVars, editVars, callVars, previewPdfName,
                   uploadedFileName, uploadedFileServerName, mergeVars,
                   browserVars, nJobs, dels, srvVars>>

\* One firing of the poller's interval (upload and merge).
PollTick(j) ==
    /\ jobs[j].pc = "poll"
    /\ IF jobs[j].count + 1 >= MAX_POLLS
       THEN /\ jobs' = [jobs EXCEPT ![j].pc = "stopped", ![j].count = 0,
                                    ![j].gaveUp = TRUE, ![j].setStatus = "success"]
            /\ IF JobMounted(j)
               THEN /\ uploadStatus' = "success"
                    /\ IF jobs[j].kind = "upload"
                       THEN PendingToLibrary(jobs[j].serverName)
                       ELSE UNCHANGED <<pdfLibrary, pendingUploadRef>>
               ELSE UNCHANGED <<uploadStatus, pdfLibrary, pendingUploadRef>>
       ELSE /\ jobs[j].inflight < MaxInflight
            /\ jobs' = [jobs EXCEPT ![j].count = @ + 1, ![j].inflight = @ + 1]
            /\ UNCHANGED <<uploadStatus, pdfLibrary, pendingUploadRef>>
    /\ UNCHANGED <<shellVars, compVars, editVars, callVars, previewPdfName,
                   uploadedFileName, uploadedFileServerName, mergeVars,
                   browserVars, nJobs, dels, srvVars>>

\* A status request is answered with res.ok.
StatusResponds(j) ==
    /\ jobs[j].inflight > 0
    /\ LET status == StatusOf(srv[jobs[j].serverName])
           stop == [jobs EXCEPT ![j].inflight = @ - 1, ![j].count = 0,
                                ![j].pc = "stopped"]
       IN  CASE status = "done" ->
                  /\ jobs' = [stop EXCEPT ![j].setStatus = "success"]
                  /\ polledDone' = polledDone \cup {jobs[j].serverName}
                  /\ IF JobMounted(j)
                     THEN /\ uploadStatus' = "success"
                          /\ IF jobs[j].kind = "upload"
                             THEN PendingToLibrary(jobs[j].serverName)
                             ELSE UNCHANGED <<pdfLibrary, pendingUploadRef>>
                     ELSE UNCHANGED <<uploadStatus, pdfLibrary, pendingUploadRef>>
              [] status = "error" ->
                  /\ jobs' = [stop EXCEPT ![j].setStatus = "error",
                                          ![j].sawError = TRUE]
                  /\ uploadStatus' = IF JobMounted(j) THEN "error" ELSE uploadStatus
                  /\ UNCHANGED <<pdfLibrary, pendingUploadRef, polledDone>>
              [] OTHER ->
                  /\ jobs' = [jobs EXCEPT ![j].inflight = @ - 1]
                  /\ UNCHANGED <<uploadStatus, pdfLibrary, pendingUploadRef, polledDone>>
    /\ UNCHANGED <<shellVars, compVars, editVars, callVars, previewPdfName,
                   uploadedFileName, uploadedFileServerName, mergeVars,
                   browserVars, nJobs, dels, srv>>

\* A status request rejects or answers !ok: keep polling.
StatusFails(j) ==
    /\ jobs[j].inflight > 0
    /\ jobs' = [jobs EXCEPT ![j].inflight = @ - 1]
    /\ UNCHANGED <<shellVars, compVars, editVars, callVars, pdfLibrary, previewPdfName,
                   uploadVars, mergeVars, browserVars, nJobs, dels, srvVars>>

dismissUpload ==
    /\ inst # 0
    /\ uploadStatus \in {"success", "error"}
    /\ uploadStatus' = "idle"
    /\ uploadedFileName' = "null"
    /\ UNCHANGED <<shellVars, compVars, editVars, callVars, pdfLibrary, previewPdfName,
                   uploadedFileServerName, pendingUploadRef, mergeVars,
                   browserVars, jobVars, srvVars>>

\* The effect on uploadStatus: 2 s after `success` the pill goes away.
AutoDismiss ==
    /\ inst # 0
    /\ uploadStatus = "success"
    /\ uploadStatus' = "idle"
    /\ UNCHANGED <<shellVars, compVars, editVars, callVars, pdfLibrary, previewPdfName,
                   uploadedFileName, uploadedFileServerName, pendingUploadRef,
                   mergeVars, browserVars, jobVars, srvVars>>

\* The checkbox of a library row.
toggleMergeSelected(name) ==
    /\ inst # 0
    /\ name \in LibNames(pdfLibrary)
    /\ mergeSelected' =
           IF \E i \in 1..Len(mergeSelected) : mergeSelected[i] = name
           THEN WithoutName(mergeSelected, name)
           ELSE mergeSelected \o <<name>>
    /\ UNCHANGED <<shellVars, compVars, editVars, callVars, pdfLibrary, previewPdfName,
                   uploadVars, mergeName, mergeLoading, browserVars, jobVars,
                   srvVars>>

\* The name input of the merge bar (shown when 2+ are selected).
MergeNames == {<<>>, <<"M">>, <<"A">>}

setMergeName(n) ==
    /\ inst # 0
    /\ Len(mergeSelected) >= 2
    /\ n # mergeName
    /\ mergeName' = n
    /\ UNCHANGED <<shellVars, compVars, editVars, callVars, pdfLibrary, previewPdfName,
                   uploadVars, mergeSelected, mergeLoading, browserVars,
                   jobVars, srvVars>>

\* The preview button of a library row, and closing the preview.
setPreviewPdfName(name) ==
    /\ inst # 0
    /\ name \in LibNames(pdfLibrary) \cup {"null"}
    /\ name # previewPdfName
    /\ previewPdfName' = name
    /\ UNCHANGED <<shellVars, compVars, editVars, callVars, pdfLibrary, uploadVars,
                   mergeVars, browserVars, jobVars, srvVars>>

\* Date.now(): it differs between two merges, since the second handleMerge
\* passes its guard only after the first one's request was answered.
Now == nJobs + 1

\* PDFLibraryPanel.handleMergeClick on the panel's state: the onMerge calls
\* it makes (none or one) and the state it leaves.
handleMergeClick(sel, name, busy, now) ==
    IF Len(sel) < 2 \/ busy
    THEN [onMerge |-> <<>>, mergeSelected |-> sel, mergeName |-> name]
    ELSE [onMerge |-> <<[filenames |-> sel,
                        outName |-> IF Trim(name) # <<>> THEN Trim(name)
                                    ELSE <<"merged_", now>>]>>,
          mergeSelected |-> <<>>, mergeName |-> <<>>]

\* A handleMerge that sends whatever is selected.
handleMergeUnguarded ==
    /\ inst # 0
    /\ IF mergeLoading
       THEN UNCHANGED vars
       ELSE /\ nJobs < Cardinality(JobIds)
            /\ nJobs' = nJobs + 1
            /\ mergeLoading' = TRUE
            /\ jobs' = [jobs EXCEPT ![nJobs + 1] =
                   [IdleJob EXCEPT
                      !.pc = "merge", !.kind = "merge", !.comp = inst,
                      !.filenames = mergeSelected,
                      !.reqLib = LibNames(pdfLibrary),
                      !.outName = IF Trim(mergeName) # <<>> THEN Trim(mergeName)
                                  ELSE <<"merged_", Now>>]]
            /\ UNCHANGED <<shellVars, compVars, editVars, callVars, pdfLibrary,
                           previewPdfName, uploadVars, mergeSelected, mergeName,
                           browserVars, dels, srvVars>>

\* handleMerge, up to its await of the merge request.
handleMerge ==
    /\ inst # 0
    /\ IF Len(mergeSelected) < 2 \/ mergeLoading
       THEN UNCHANGED vars
       ELSE /\ nJobs < Cardinality(JobIds)
            /\ nJobs' = nJobs + 1
            /\ mergeLoading' = TRUE
            /\ jobs' = [jobs EXCEPT ![nJobs + 1] =
                   [IdleJob EXCEPT
                      !.pc = "merge", !.kind = "merge", !.comp = inst,
                      !.filenames = mergeSelected,
                      !.reqLib = LibNames(pdfLibrary),
                      !.outName = IF Trim(mergeName) # <<>> THEN Trim(mergeName)
                                  ELSE <<"merged_", Now>>]]
            /\ UNCHANGED <<shellVars, compVars, editVars, callVars, pdfLibrary,
                           previewPdfName, uploadVars, mergeSelected, mergeName,
                           browserVars, dels, srvVars>>

\* The merge request rejects or answers !res.ok: alert, finally.
MergeFails(j) ==
    /\ jobs[j].pc = "merge"
    /\ jobs' = [jobs EXCEPT ![j].pc = "stopped"]
    /\ mergeLoading' = IF JobMounted(j) THEN FALSE ELSE mergeLoading
    /\ UNCHANGED <<shellVars, compVars, editVars, callVars, pdfLibrary, previewPdfName,
                   uploadVars, mergeSelected, mergeName, browserVars, nJobs,
                   dels, srvVars>>

\* A merge that leaves the library alone until a poll answers.
MergeRespondsUnlisted(j) ==
    /\ jobs[j].pc = "merge"
    /\ ServerAcceptsMerge(srv, jobs[j].filenames)
    /\ LET serverName == MergedFile(jobs[j].outName) IN
       /\ srv' = ServerUpload(srv, serverName)
       /\ jobs' = [jobs EXCEPT ![j].pc = "poll", ![j].serverName = serverName,
                               ![j].setStatus = "embedding"]
       /\ IF JobMounted(j)
          THEN /\ pdfLibrary' = pdfLibrary
               /\ mergeSelected' = <<>>
               /\ mergeName' = <<>>
               /\ uploadedFileName' = serverName
               /\ uploadedFileServerName' = serverName
               /\ uploadStatus' = "embedding"
               /\ mergeLoading' = FALSE
          ELSE UNCHANGED <<pdfLibrary, mergeVars, uploadedFileName,
                           uploadedFileServerName, uploadStatus>>
    /\ UNCHANGED <<shellVars, compVars, editVars, callVars, previewPdfName,
                   pendingUploadRef, browserVars, nJobs, dels, polledDone>>

\* The server merged: the entry is added, the poller is started, finally.
MergeResponds(j) ==
    /\ jobs[j].pc = "merge"
    /\ ServerAcceptsMerge(srv, jobs[j].filenames)
    /\ LET serverName == MergedFile(jobs[j].outName) IN
       /\ srv' = ServerUpload(srv, serverName)
       /\ jobs' = [jobs EXCEPT ![j].pc = "poll", ![j].serverName = serverName,
                               ![j].setStatus = "embedding"]
       /\ IF JobMounted(j)
          THEN /\ pdfLibrary' = WithPdf(pdfLibrary,
                      PdfEntry(serverName, serverName, DownloadUrl(serverName)))
               /\ mergeSelected' = <<>>
               /\ mergeName' = <<>>
               /\ uploadedFileName' = serverName
               /\ uploadedFileServerName' = serverName
               /\ uploadStatus' = "embedding"
               /\ mergeLoading' = FALSE
          ELSE UNCHANGED <<pdfLibrary, mergeVars, uploadedFileName,
                           uploadedFileServerName, uploadStatus>>
    /\ UNCHANGED <<shellVars, compVars, editVars, callVars, previewPdfName,
                   pendingUploadRef, browserVars, nJobs, dels, polledDone>>

\* handleDeletePdf, up to its await of the DELETE request.
handleDeletePdf(name) ==
    /\ inst # 0
    /\ name \in LibNames(pdfLibrary)
    /\ \E d \in DelIds :
          /\ dels[d].pc = "idle"
          /\ \A e \in DelIds : e < d => dels[e].pc # "idle"
          /\ dels' = [dels EXCEPT ![d] =
                 [pc |-> "req", name |-> name, preview |-> previewPdfName,
                  comp |-> inst]]
    /\ UNCHANGED <<shellVars, compVars, editVars, callVars, pdfLibrary, previewPdfName,
                   uploadVars, mergeVars, browserVars, jobs, nJobs, srvVars>>

\* entry?.objectUrl.startsWith('blob:') -> URL.revokeObjectURL
RevokedBy(lib, name) ==
    {lib[i].objectUrl.ref : i \in {k \in 1..Len(lib) :
          /\ lib[k].name = name
          /\ lib[k].objectUrl.scheme = "blob"
          /\ \A m \in 1..(k - 1) : lib[m].name # name}}

\* A handler whose selection update flips the name instead of filtering it.
DeletePdfToggling(st, name, captured) ==
    [pdfLibrary |-> WithoutPdf(st.pdfLibrary, name),
     mergeSelected |-> IF name \in {st.mergeSelected[i] : i \in 1..Len(st.mergeSelected)}
                       THEN WithoutName(st.mergeSelected, name)
                       ELSE st.mergeSelected \o <<name>>,
     previewPdfName |-> IF captured = name THEN "null" ELSE st.previewPdfName]

\* The three state updates of handleDeletePdf after its request, on the
\* state st; `captured` is the previewPdfName of the render that called it.
DeletePdf(st, name, captured) ==
    [pdfLibrary |-> WithoutPdf(st.pdfLibrary, name),
     mergeSelected |-> WithoutName(st.mergeSelected, name),
     previewPdfName |-> IF captured = name THEN "null" ELSE st.previewPdfName]

\* PDFLibraryPanel.handleDelete on the panel's state: its onDelete calls and
\* the state it leaves.
handleDelete(sel, preview, name) ==
    [onDelete |-> <<name>>,
     mergeSelected |-> WithoutName(sel, name),
     previewPdfName |-> IF preview = name THEN "null" ELSE preview]

\* The DELETE request settled (served: the server deleted; otherwise it
\* rejected, which the handler ignores): the entry is removed.
DeleteSettles(d, served) ==
    /\ dels[d].pc = "req"
    /\ dels' = [dels EXCEPT ![d] = IdleDel]
    /\ srv' = IF served THEN ServerDelete(srv, dels[d].name) ELSE srv
    /\ IF dels[d].comp = inst
       THEN LET st == DeletePdf([pdfLibrary |-> pdfLibrary,
                                 mergeSelected |-> mergeSelected,
                                 previewPdfName |-> previewPdfName],
                                dels[d].name, dels[d].preview)
            IN  /\ pdfLibrary' = st.pdfLibrary
                /\ revoked' = revoked \cup RevokedBy(pdfLibrary, dels[d].name)
                /\ mergeSelected' = st.mergeSelected
                /\ previewPdfName' = st.previewPdfName
       ELSE UNCHANGED <<pdfLibrary, revoked, mergeSelected, previewPdfName>>
    /\ UNCHANGED <<shellVars, compVars, editVars, callVars, uploadVars, mergeName,
                   mergeLoading, nextBlob, jobs, nJobs, polledDone>>

\* The library part of a state in which the documents of `lib` were uploaded
\* and embedded earlier (nb - 1 object URLs made) and nothing is running.
LibraryIs(lib, nb) ==
    /\ pdfLibrary = lib
    /\ previewPdfName = "null"
    /\ mergeSelected = <<>>
    /\ mergeName = <<>>
    /\ mergeLoading = FALSE
    /\ uploadStatus = "idle"
    /\ uploadedFileName = "null"
    /\ uploadedFileServerName = "null"
    /\ pendingUploadRef = <<>>
    /\ nextBlob = nb
    /\ revoked = {}
    /\ jobs = [j \in JobIds |-> IdleJob]
    /\ nJobs = 0
    /\ dels = [d \in DelIds |-> IdleDel]
    /\ srv = [f \in Names |-> IF f \in LibNames(lib) THEN "ready" ELSE "absent"]
    /\ polledDone = LibNames(lib)

----------------------------------------------------------------------------
(***************************************************************************)
(* Inputs.                                                                 *)
(***************************************************************************)
\* What the user may type: a question, and blank input.
Texts == {<<"q">>, <<"SP">>}

\* Lines a server may write to an SSE body (each is followed by "LF"):
\* two token events (the second carries a two-byte character), the terminal
\* marker with a CRLF line ending, a token event cut short (not JSON), an
\* event that is JSON but no token, and the empty line between events.
LineKinds ==
    { <<"data: ", "T", "a", "}">>,
      <<"data: ", "T", "C3", "A9", "}">>,
      <<"data: ", "[DONE]", "CR">>,
      <<"data: ", "T", "a">>,
      <<"data: ", "M">>,
      <<>> }

RECURSIVE Wire(_)
Wire(lines) ==
    IF lines = <<>> THEN <<>>
    ELSE Head(lines) \o <<"LF">> \o Wire(Tail(lines))

LineSeqs == UNION {[1..n -> LineKinds] : n \in 0..MaxLines}

\* Every body of at most MaxLines lines.  A body cut off earlier is a run in
\* which ReadDone or ReadFails comes before the wire is empty.
Streams == {Wire(ls) : ls \in LineSeqs}

\* One earlier exchange, as a session restored from GET /history carries it.
OldExchange == <<UserMsg(<<"q0">>), AssistantMsg(<<"a0">>)>>

----------------------------------------------------------------------------
(***************************************************************************)
(* SpecStream: one mounted ChatComponent and the streams it reads.  It     *)
(* starts after the history was loaded (one session, new or restored) and  *)
(* one PDF finished embedding.                                             *)
(***************************************************************************)
InitStream ==
    /\ historyLoading = FALSE
    /\ localStorage = getAnonymousUserId
    /\ \E m0 \in {<<>>, OldExchange} :
          /\ sessions = <<[id |-> 1, title |-> DerivedTitle(m0, <<"New Chat">>),
                           messages |-> m0]>>
          /\ messages = m0
    /\ activeSessionId = 1
    /\ nextId = 2
    /\ saves = <<>>
    /\ inst = 1
    /\ loading = FALSE
    /\ translatingPdf = "null"
    /\ suggestions = <<>>
    /\ suggestionsLoading = FALSE
    /\ editingIndex = -1
    /\ editValue = <<>>
    /\ resend = <<>>
    /\ voiceTimer = <<>>
    /\ staleRender = <<>>
    /\ LibraryIs(<<PdfEntry("A.pdf", "A.pdf", BlobUrl(1))>>, 2)
    /\ calls = [c \in CallIds |-> IdleCall]
    /\ nCalls = 0

\* A pending request settles and a response body ends: the browser resolves or
\* rejects every fetch, and a body is finite (it ends cleanly or breaks).
Settles ==
    \E c \in CallIds :
        \/ /\ calls[c].pc = "fetch"
           /\ \/ FetchFails(c)
              \/ \E w \in Streams : FetchResponds(c, w)
        \/ ReadDone(c)
        \/ ReadFails(c)
        \/ /\ calls[c].pc = "suggest"
           /\ \E ok \in BOOLEAN : \E sug \in {<<>>, <<"s1">>} :
                 SuggestionsSettle(c, ok, sug)

NextStream ==
    \/ \E t \in Texts : FirstCall /\ sendMessage(t)
    \/ FirstCall /\ handleTranslate("A.pdf")
    \/ \E c \in CallIds : FetchFails(c)
    \/ \E c \in CallIds : \E w \in Streams : FetchResponds(c, w)
    \/ \E c \in CallIds : \E n \in ReadSizes(c) : ReadChunk(c, n)
    \/ \E c \in CallIds : ReadDone(c)
    \/ \E c \in CallIds : ReadFails(c)
    \/ \E c \in CallIds : \E ok \in BOOLEAN : \E sug \in {<<>>, <<"s1">>} :
          SuggestionsSettle(c, ok, sug)

SpecStream == InitStream /\ [][NextStream]_vars

FairStream == SpecStream /\ WF_vars(Settles)

----------------------------------------------------------------------------
(***************************************************************************)
(* SpecEdit: one mounted ChatComponent restored with earlier exchanges, in *)
(* which messages are edited and re-sent around a chat exchange whose body *)
(* carries a token event and the marker.                                   *)
(***************************************************************************)
EditTexts == {<<"e">>, <<"SP">>}

EditStreams ==
    { Wire(<< <<"data: ", "T", "a", "}">>, <<"data: ", "[DONE]", "CR">> >>) }

\* Two earlier exchanges.
OldExchanges == OldExchange \o <<UserMsg(<<"q1">>), AssistantMsg(<<"a1">>)>>

InitEdit ==
    /\ historyLoading = FALSE
    /\ localStorage = getAnonymousUserId
    /\ \E m0 \in {OldExchange, OldExchanges} :
          /\ sessions = <<[id |-> 1, title |-> DerivedTitle(m0, <<"New Chat">>),
                           messages |-> m0]>>
          /\ messages = m0
    /\ activeSessionId = 1
    /\ nextId = 2
    /\ saves = <<>>
    /\ inst = 1
    /\ loading = FALSE
    /\ translatingPdf = "null"
    /\ suggestions = <<>>
    /\ suggestionsLoading = FALSE
    /\ editingIndex = -1
    /\ editValue = <<>>
    /\ resend = <<>>
    /\ voiceTimer = <<>>
    /\ staleRender = <<>>
    /\ LibraryIs(<<PdfEntry("A.pdf", "A.pdf", BlobUrl(1))>>, 2)
    /\ calls = [c \in CallIds |-> IdleCall]
    /\ nCalls = 0

\* A timer of 0 ms fires before the next input of the user is handled.
NoTimerPending == resend = <<>>

NextEdit ==
    \/ \E i \in 0..3 : NoTimerPending /\ startEdit(i)
    \/ \E v \in EditTexts : NoTimerPending /\ setEditValue(v)
    \/ NoTimerPending /\ cancelEdit
    \/ submitEdit
    \/ EditResend
    \/ NoTimerPending /\ FirstCall /\ sendMessage(<<"q">>)
    \/ NoTimerPending /\ FirstCall /\ handleTranslate("A.pdf")
    \/ \E c \in CallIds : FetchFails(c)
    \/ \E c \in CallIds : \E w \in EditStreams : FetchResponds(c, w)
    \/ \E c \in CallIds : \E n \in ReadSizes(c) : ReadChunk(c, n)
    \/ \E c \in CallIds : ReadDone(c)
    \/ \E c \in CallIds : ReadFails(c)
    \/ \E c \in CallIds : \E ok \in BOOLEAN : \E sug \in {<<>>, <<"s1">>} :
          SuggestionsSettle(c, ok, sug)

SpecEdit == InitEdit /\ [][NextEdit]_vars

----------------------------------------------------------------------------
(***************************************************************************)
(* SpecRace: one mounted ChatComponent in which sendMessage is invoked     *)
(* from the send button and from the timers of submitEdit and of the       *)
(* speech recognition, whose updates are rendered in a later task.         *)
(***************************************************************************)
\* The component has rendered its state.
Rendered == staleRender = <<>>

NoTimers == resend = <<>> /\ voiceTimer = <<>>

InitRace ==
    /\ historyLoading = FALSE
    /\ localStorage = getAnonymousUserId
    /\ sessions = <<[id |-> 1, title |-> DerivedTitle(OldExchange, <<"New Chat">>),
                     messages |-> OldExchange]>>
    /\ messages = OldExchange
    /\ activeSessionId = 1
    /\ nextId = 2
    /\ saves = <<>>
    /\ inst = 1
    /\ loading = FALSE
    /\ translatingPdf = "null"
    /\ suggestions = <<>>
    /\ suggestionsLoading = FALSE
    /\ editingIndex = -1
    /\ editValue = <<>>
    /\ resend = <<>>
    /\ voiceTimer = <<>>
    /\ staleRender = <<>>
    /\ LibraryIs(<<PdfEntry("A.pdf", "A.pdf", BlobUrl(1))>>, 2)
    /\ calls = [c \in CallIds |-> IdleCall]
    /\ nCalls = 0

\* Inputs of the user and responses of the network are handled after a
\* scheduled render; a timer that is already due may run before it.
NextRace ==
    \/ Rendered /\ NoTimers /\ startEdit(0)
    \/ Rendered /\ submitEdit
    \/ Rendered /\ recognitionEnds(<<"v">>)
    \/ \E which \in {"edit", "voice"} : TimerSends(which)
    \/ Render
    \/ Rendered /\ NoTimers /\ sendMessage(<<"q">>)
    \/ Rendered /\ NoTimers /\ handleTranslate("A.pdf")
    \/ \E c \in CallIds : Rendered /\ FetchFails(c)
    \/ \E c \in CallIds : \E w \in EditStreams : Rendered /\ FetchResponds(c, w)
    \/ \E c \in CallIds : \E n \in ReadSizes(c) : Rendered /\ ReadChunk(c, n)
    \/ \E c \in CallIds : Rendered /\ ReadDone(c)
    \/ \E c \in CallIds : Rendered /\ ReadFails(c)
    \/ \E c \in CallIds : \E ok \in BOOLEAN : \E sug \in {<<>>, <<"s1">>} :
          Rendered /\ SuggestionsSettle(c, ok, sug)

SpecRace == InitRace /\ [][NextRace]_vars

----------------------------------------------------------------------------
(***************************************************************************)
(* SpecShell: AppShell from construction on: history load, new chat,       *)
(* session selection and deletion, around a chat exchange whose body       *)
(* carries two token events and the marker (or is cut off before).         *)
(***************************************************************************)
ShellStreams ==
    { Wire(<< <<"data: ", "T", "a", "}">>,
              <<"data: ", "T", "C3", "A9", "}">>,
              <<"data: ", "[DONE]", "CR">> >>) }

\* What GET /history may return: nothing, or one session with one exchange.
Histories ==
    { <<>>,
      <<[id |-> 1, title |-> TitleOf(<<"q0">>), messages |-> OldExchange]>> }

InitShell ==
    /\ historyLoading = TRUE
    /\ localStorage = getAnonymousUserId
    /\ sessions = <<>>
    /\ activeSessionId = 0
    /\ nextId = 1
    /\ saves = <<>>
    /\ inst = 0
    /\ messages = <<>>
    /\ loading = FALSE
    /\ translatingPdf = "null"
    /\ suggestions = <<>>
    /\ suggestionsLoading = FALSE
    /\ editingIndex = -1
    /\ editValue = <<>>
    /\ resend = <<>>
    /\ voiceTimer = <<>>
    /\ staleRender = <<>>
    /\ LibraryIs(<<>>, 1)
    /\ calls = [c \in CallIds |-> IdleCall]
    /\ nCalls = 0

NextShell ==
    \/ \E h \in Histories : HistoryLoaded(h)
    \/ handleNewChat
    \/ \E id \in 1..MaxSessions : handleSelectSession(id)
    \/ \E id \in 1..MaxSessions : handleDeleteSession(id)
    \/ \E t \in Texts : FirstCall /\ sendMessage(t)
    \/ \E c \in CallIds : FetchFails(c)
    \/ \E c \in CallIds : \E w \in ShellStreams : FetchResponds(c, w)
    \/ \E c \in CallIds : \E n \in ReadSizes(c) : ReadChunk(c, n)
    \/ \E c \in CallIds : ReadDone(c)
    \/ \E c \in CallIds : ReadFails(c)
    \/ \E c \in CallIds : \E ok \in BOOLEAN : \E sug \in {<<>>, <<"s1">>} :
          SuggestionsSettle(c, ok, sug)

SpecShell == InitShell /\ [][NextShell]_vars

----------------------------------------------------------------------------
(***************************************************************************)
(* SpecLib: one mounted ChatComponent with its PDF library: an upload, its *)
(* status poller, the server's ingestion, deletes, and the chat request    *)
(* that names the library's documents.                                     *)
(***************************************************************************)
\* No ingestion has been started yet: the specifications of a single
\* ingestion start their upload or merge from here.
FirstJob == nJobs = 0

\* No delete request is pending: the specifications of one delete at a time
\* start their deletes from here.
NoDeletePending == \A d \in DelIds : dels[d].pc = "idle"

\* What the file picker may hand over.
Files == {"A.pdf", "x.txt"}

\* One blank session, its component mounted, nothing sent yet.
InitChat ==
    /\ historyLoading = FALSE
    /\ localStorage = getAnonymousUserId
    /\ sessions = <<createSession(1)>>
    /\ activeSessionId = 1
    /\ nextId = 2
    /\ saves = <<>>
    /\ inst = 1
    /\ messages = <<>>
    /\ loading = FALSE
    /\ translatingPdf = "null"
    /\ suggestions = <<>>
    /\ suggestionsLoading = FALSE
    /\ editingIndex = -1
    /\ editValue = <<>>
    /\ resend = <<>>
    /\ voiceTimer = <<>>
    /\ staleRender = <<>>
    /\ calls = [c \in CallIds |-> IdleCall]
    /\ nCalls = 0

InitLib ==
    /\ InitChat
    /\ \/ LibraryIs(<<>>, 1)
       \/ LibraryIs(<<PdfEntry("A.pdf", "A.pdf", BlobUrl(1))>>, 2)

NextLib ==
    \/ \E f \in Files : (FirstJob \/ ~EndsWithPdf(f)) /\ handleFileChange(f)
    \/ \E j \in JobIds : UploadFails(j)
    \/ \E j \in JobIds : UploadResponds(j)
    \/ \E j \in JobIds : PollTick(j)
    \/ \E j \in JobIds : StatusResponds(j)
    \/ \E j \in JobIds : StatusFails(j)
    \/ dismissUpload
    \/ AutoDismiss
    \/ \E n \in {"A.pdf", "null"} : setPreviewPdfName(n)
    \/ \E n \in Names : toggleMergeSelected(n)
    \/ \E n \in Names : handleDeletePdf(n)
    \/ \E d \in DelIds : \E served \in BOOLEAN : DeleteSettles(d, served)
    \/ \E f \in Names : IngestSucceeds(f)
    \/ \E f \in Names : IngestFails(f)
    \/ FirstCall /\ sendMessage(<<"q">>)
    \/ \E c \in CallIds : FetchFails(c)

SpecLib == InitLib /\ [][NextLib]_vars

----------------------------------------------------------------------------
(***************************************************************************)
(* SpecMerge: a library of two embedded documents: selecting, naming and   *)
(* merging them, the merged document's poller and ingestion, and the chat  *)
(* request that names the library's documents.                             *)
(***************************************************************************)
InitMerge ==
    /\ InitChat
    /\ LibraryIs(<<PdfEntry("A.pdf", "A.pdf", BlobUrl(1)),
                   PdfEntry("B.pdf", "B.pdf", BlobUrl(2))>>, 3)

NextMerge ==
    \/ \E n \in Names : toggleMergeSelected(n)
    \/ \E n \in MergeNames : setMergeName(n)
    \/ FirstJob /\ handleMerge
    \/ \E j \in JobIds : MergeFails(j)
    \/ \E j \in JobIds : MergeResponds(j)
    \/ \E j \in JobIds : PollTick(j)
    \/ \E j \in JobIds : StatusResponds(j)
    \/ \E j \in JobIds : StatusFails(j)
    \/ dismissUpload
    \/ AutoDismiss
    \/ \E f \in Names : IngestSucceeds(f)
    \/ \E f \in Names : IngestFails(f)
    \/ FirstCall /\ sendMessage(<<"q">>)
    \/ \E c \in CallIds : FetchFails(c)

SpecMerge == InitMerge /\ [][NextMerge]_vars

----------------------------------------------------------------------------
(***************************************************************************)
(* SpecIngest: an ingestion from its start to the end of its poller: an    *)
(* upload into an empty library, or a merge of two embedded documents.     *)
(* FairIngest: the poll timer keeps firing and every status request        *)
(* settles (is answered or fails).                                         *)
(***************************************************************************)
InitIngest ==
    /\ InitChat
    /\ \/ LibraryIs(<<>>, 1)
       \/ LibraryIs(<<PdfEntry("A.pdf", "A.pdf", BlobUrl(1)),
                      PdfEntry("B.pdf", "B.pdf", BlobUrl(2))>>, 3)

TimerFires == \E j \in JobIds : PollTick(j)

StatusSettles == \E j \in JobIds : StatusResponds(j) \/ StatusFails(j)

NextIngest ==
    \/ \E f \in Files : (FirstJob \/ ~EndsWithPdf(f)) /\ handleFileChange(f)
    \/ \E j \in JobIds : UploadFails(j)
    \/ \E j \in JobIds : UploadResponds(j)
    \/ \E n \in {"A.pdf", "B.pdf"} : toggleMergeSelected(n)
    \/ \E n \in MergeNames : setMergeName(n)
    \/ FirstJob /\ handleMerge
    \/ \E j \in JobIds : MergeFails(j)
    \/ \E j \in JobIds : MergeResponds(j)
    \/ \E j \in JobIds : PollTick(j)
    \/ \E j \in JobIds : StatusResponds(j)
    \/ \E j \in JobIds : StatusFails(j)
    \/ dismissUpload
    \/ AutoDismiss
    \/ \E f \in Names : IngestSucceeds(f)
    \/ \E f \in Names : IngestFails(f)

SpecIngest == InitIngest /\ [][NextIngest]_vars

FairIngest == SpecIngest /\ WF_vars(TimerFires) /\ WF_vars(StatusSettles)

----------------------------------------------------------------------------
(***************************************************************************)
(* SpecPending: uploads of two files one after the other into an empty     *)
(* library, each with its poller, sharing pendingUploadRef and             *)
(* uploadStatus.                                                           *)
(***************************************************************************)
InitPending == InitChat /\ LibraryIs(<<>>, 1)

NextPending ==
    \/ \E f \in {"A.pdf", "B.pdf"} : handleFileChange(f)
    \/ \E j \in JobIds : UploadFails(j)
    \/ \E j \in JobIds : UploadResponds(j)
    \/ \E j \in JobIds : PollTick(j)
    \/ \E j \in JobIds : StatusResponds(j)
    \/ \E j \in JobIds : StatusFails(j)
    \/ AutoDismiss
    \/ \E f \in Names : IngestSucceeds(f)

SpecPending == InitPending /\ [][NextPending]_vars

----------------------------------------------------------------------------
(***************************************************************************)
(* SpecSelect: a library of two embedded documents, with selection,        *)
(* naming, merge and delete; the merged document's poller and ingestion.   *)
(***************************************************************************)
NextSelect ==
    \/ \E n \in Names : toggleMergeSelected(n)
    \/ \E n \in MergeNames : setMergeName(n)
    \/ FirstJob /\ handleMerge
    \/ \E j \in JobIds : MergeFails(j)
    \/ \E j \in JobIds : MergeResponds(j)
    \/ \E j \in JobIds : PollTick(j)
    \/ \E j \in JobIds : StatusResponds(j)
    \/ \E j \in JobIds : StatusFails(j)
    \/ \E n \in Names : NoDeletePending /\ handleDeletePdf(n)
    \/ \E d \in DelIds : \E served \in BOOLEAN : DeleteSettles(d, served)
    \/ \E f \in Names : IngestSucceeds(f)
    \/ \E f \in Names : IngestFails(f)

SpecSelect == InitMerge /\ [][NextSelect]_vars

----------------------------------------------------------------------------
(***************************************************************************)
(* SpecScenario: documents A.pdf and B.pdf have been uploaded and          *)
(* embedded; they are merged, A.pdf is deleted, and chat requests are      *)
(* sent, in any order and interleaving.                                    *)
(***************************************************************************)
NextScenario ==
    \/ \E n \in {"A.pdf", "B.pdf"} : toggleMergeSelected(n)
    \/ \E n \in MergeNames : setMergeName(n)
    \/ FirstJob /\ handleMerge
    \/ \E j \in JobIds : MergeFails(j)
    \/ \E j \in JobIds : MergeResponds(j)
    \/ \E j \in JobIds : PollTick(j)
    \/ \E j \in JobIds : StatusResponds(j)
    \/ \E j \in JobIds : StatusFails(j)
    \/ NoDeletePending /\ handleDeletePdf("A.pdf")
    \/ \E d \in DelIds : \E served \in BOOLEAN : DeleteSettles(d, served)
    \/ \E f \in Names : IngestSucceeds(f)
    \/ \E f \in Names : IngestFails(f)
    \/ FirstCall /\ sendMessage(<<"q">>)
    \/ \E c \in CallIds : FetchFails(c)

SpecScenario == InitMerge /\ [][NextScenario]_vars

----------------------------------------------------------------------------
(***************************************************************************)
(* SpecRepeat: a library of two embedded documents merged under the name   *)
(* 'M', possibly more than once, with the pollers and ingestions running   *)
(* side by side.                                                           *)
(***************************************************************************)
NextRepeat ==
    \/ \E n \in {"A.pdf", "B.pdf"} : toggleMergeSelected(n)
    \/ setMergeName(<<"M">>)
    \/ handleMerge
    \/ \E j \in JobIds : MergeFails(j)
    \/ \E j \in JobIds : MergeResponds(j)
    \/ \E j \in JobIds : PollTick(j)
    \/ \E j \in JobIds : StatusResponds(j)
    \/ \E f \in Names : IngestSucceeds(f)

SpecRepeat == InitMerge /\ [][NextRepeat]_vars

----------------------------------------------------------------------------
(***************************************************************************)
(* SpecFailure: a library of two embedded documents, a merge selection and *)
(* a chat exchange, while one of the documents is uploaded again and the   *)
(* upload or its ingestion may fail.                                       *)
(***************************************************************************)
NextFailure ==
    \/ \E f \in Files : (FirstJob \/ ~EndsWithPdf(f)) /\ handleFileChange(f)
    \/ \E j \in JobIds : UploadFails(j)
    \/ \E j \in JobIds : UploadResponds(j)
    \/ \E j \in JobIds : PollTick(j)
    \/ \E j \in JobIds : StatusResponds(j)
    \/ \E j \in JobIds : StatusFails(j)
    \/ \E n \in {"A.pdf", "B.pdf"} : toggleMergeSelected(n)
    \/ \E f \in Names : IngestSucceeds(f)
    \/ \E f \in Names : IngestFails(f)
    \/ FirstCall /\ sendMessage(<<"q">>)
    \/ \E c \in CallIds : FetchFails(c)

SpecFailure == InitMerge /\ [][NextFailure]_vars

----------------------------------------------------------------------------
(***************************************************************************)
(* What a body carried, read off the bytes received as a whole (not the    *)
(* way the read loop buffers them).                                        *)
(***************************************************************************)
RefLines(c) ==
    LET parts == Split(Decode(<<>>, calls[c].rcvd).text) IN
    SubSeq(parts, 1, Len(parts) - 1)

IsData(line) == line # <<>> /\ Head(line) = "data: "
IsDoneLine(line) == IsData(line) /\ Trim(Tail(line)) = <<"[DONE]">>
IsTokenLine(line) ==
    /\ IsData(line)
    /\ ~IsDoneLine(line)
    /\ JSONParse(Trim(Tail(line))).ok
    /\ JSONParse(Trim(Tail(line))).type = "token"
\* a data line that is neither the marker nor a token event
IsMalformedLine(line) == IsData(line) /\ ~IsDoneLine(line) /\ ~IsTokenLine(line)

RECURSIVE TokenText(_)
TokenText(lines) ==
    IF lines = <<>> THEN <<>>
    ELSE (IF IsTokenLine(Head(lines)) THEN JSONParse(Trim(Tail(Head(lines)))).data
          ELSE <<>>) \o TokenText(Tail(lines))

\* index of the first terminal marker among the lines, or 0
FirstDone(lines) ==
    LET idx == {i \in 1..Len(lines) : IsDoneLine(lines[i])} IN
    IF idx = {} THEN 0 ELSE CHOOSE i \in idx : \A j \in idx : i <= j

\* the assistant placeholder that call c created in the mounted component
AssistantContent(c) == messages[Len(calls[c].before) + 2].content

----------------------------------------------------------------------------
(***************************************************************************)
(* Claims.                                                                 *)
(***************************************************************************)

\* C1: every sendMessage / handleTranslate call that set loading = true
\* reaches its terminal outcome and sets loading back to false exactly once,
\* whether the body ends after [DONE], ends without a marker, or the fetch
\* or a read fails; and with that `loading` is false again.
C1_LoadingResetOnce ==
    /\ [](\A c \in CallIds :
            /\ calls[c].loadingOff <= 1
            /\ calls[c].pc = "done" => calls[c].loadingOff = 1)
    /\ \A c \in CallIds :
          Running(c) ~> /\ calls[c].pc = "done"
                        /\ calls[c].loadingOff = 1
                        /\ Mounted(c) => ~loading

\* C1 witness: a stream whose connection broke after bytes had arrived has
\* ended, with loading reset once.
C1_Witness ==
    \E c \in CallIds :
        /\ calls[c].pc = "done"
        /\ calls[c].ended = "error"
        /\ calls[c].rcvd # <<>>
        /\ calls[c].loadingOff = 1
        /\ ~loading

\* C2: when a chat stream ends without error, fullAnswer and the content of
\* its assistant message are the concatenation, in arrival order, of the data
\* of every well-formed token event received.
C2_EveryTokenInOrder ==
    \A c \in CallIds :
        (calls[c].kind = "chat" /\ calls[c].pc = "done" /\ ~calls[c].hadError)
        => /\ calls[c].fullAnswer = TokenText(RefLines(c))
           /\ Mounted(c) => AssistantContent(c) = TokenText(RefLines(c))

\* C3: once a `data: [DONE]` line has been read, no token event read after
\* it is appended: the answer is the text of the token events before the
\* marker.
C3_MarkerEndsTokens ==
    \A c \in CallIds :
        LET lines == RefLines(c)
            d == FirstDone(lines)
        IN (d # 0 /\ ~calls[c].hadError)
           => /\ calls[c].fullAnswer = TokenText(SubSeq(lines, 1, d - 1))
              /\ (Mounted(c) /\ Running(c))
                    => AssistantContent(c) = TokenText(SubSeq(lines, 1, d - 1))

\* C4: a data line that is not JSON, or not a token event, is skipped and is
\* not fatal: as long as no terminal marker was read, the answer and the
\* assistant message are exactly the text of the well-formed token events
\* received, before and after such lines, and only a failed fetch or read
\* puts the exchange into the error outcome.
C4_MalformedSkipped ==
    \A c \in CallIds :
        (calls[c].pc # "idle" /\ FirstDone(RefLines(c)) = 0)
        => /\ calls[c].fullAnswer = TokenText(RefLines(c))
           /\ calls[c].hadError => calls[c].ended \in {"fetch", "error"}
           /\ (Mounted(c) /\ ~calls[c].hadError)
                 => AssistantContent(c) = TokenText(RefLines(c))

\* C4 witness: a stream with a malformed line between two token events ended
\* without error and both tokens are in the answer that was saved.
C4_Witness ==
    \E c \in CallIds :
        LET lines == RefLines(c) IN
        /\ calls[c].pc = "done"
        /\ ~calls[c].hadError
        /\ FirstDone(lines) = 0
        /\ \E i, j, k \in 1..Len(lines) :
              /\ i < j /\ j < k
              /\ IsTokenLine(lines[i])
              /\ IsMalformedLine(lines[j])
              /\ IsTokenLine(lines[k])
        /\ Len(calls[c].fullAnswer) = 2
        /\ calls[c].saved = 1
        /\ AssistantContent(c) = calls[c].fullAnswer

\* C5: whenever a chat stream fails or is cut off before its terminal marker,
\* the final assistant message of the exchange is the error text and the
\* exchange is not saved.
C5_FailureShowsError ==
    \A c \in CallIds :
        ( /\ calls[c].kind = "chat"
          /\ calls[c].pc = "done"
          /\ \/ calls[c].ended \in {"fetch", "error"}
             \/ calls[c].ended = "eof" /\ FirstDone(RefLines(c)) = 0 )
        => /\ calls[c].saved = 0
           /\ Mounted(c) => AssistantContent(c) = ChatErrorText

\* C6: once the chat component of a stream's session is unmounted (session
\* switch, new chat, session delete), no token of that stream arriving
\* afterwards is in the answer later passed to onSaveSession: the saved
\* answer is what had been accumulated when the component went away.
C6_NoTokensAfterCancel ==
    \A c \in CallIds :
        (calls[c].cancelled /\ calls[c].saved > 0)
        => calls[c].savedMsgs[Len(calls[c].savedMsgs)].content
              = calls[c].cancelAnswer

\* No upload, merge or delete is under way, on the client or on the server.
Quiescent ==
    /\ \A j \in JobIds : jobs[j].pc \in {"idle", "stopped"} /\ jobs[j].inflight = 0
    /\ \A d \in DelIds : dels[d].pc = "idle"
    /\ \A f \in Names : srv[f] # "embedding"

\* C7: after each add, delete or merge operation (failed requests and failed
\* ingestions included) the documents of the library are exactly the
\* documents that are ready in the index.
C7_LibraryEqualsIndex ==
    Quiescent => LibNames(pdfLibrary) = {f \in Names : srv[f] = "ready"}

\* C8: every chat request's active_pdfs names only documents for which a
\* status poll has returned `done` (uploaded and merged ones, also after
\* polling gave up).
C8_OnlyDoneQueried ==
    \A c \in CallIds :
        (calls[c].pc # "idle" /\ calls[c].kind = "chat")
        => \A i \in 1..Len(calls[c].active_pdfs) :
              calls[c].active_pdfs[i] \in polledDone

\* C9: a document whose status was reported as `error` (and that was not
\* submitted again since) is not an entry of the library.
C9_FailedNotUsable ==
    \A j \in JobIds :
        (/\ jobs[j].sawError
         /\ \A k \in JobIds :
               k > j => jobs[k].pc = "idle" \/ jobs[k].serverName # jobs[j].serverName)
        => jobs[j].serverName \notin LibNames(pdfLibrary)

\* C10: a poller that reached its bound without having seen `done` sets the
\* upload status to `error`, and its document is not in the library unless
\* a poll had returned `done` for it.
C10_TimeoutFails ==
    \A j \in JobIds :
        jobs[j].gaveUp
        => /\ jobs[j].setStatus = "error"
           /\ jobs[j].serverName \in polledDone
                 \/ jobs[j].serverName \notin LibNames(pdfLibrary)

\* C11: whenever uploadStatus is 'embedding' it eventually is not (the
\* poller ends with 'success' or 'error'), whatever the status requests
\* answer, as long as the timer fires and the requests settle.
C11_EmbeddingEnds ==
    (uploadStatus = "embedding") ~> (uploadStatus \in {"success", "error"})

\* The poller of a merge gave up at its bound and ended the embedding state.
C11_Witness ==
    \E j \in JobIds :
        /\ jobs[j].gaveUp
        /\ jobs[j].kind = "merge"
        /\ uploadStatus = "success"

\* Pairwise distinct elements.
Distinct(seq) == \A a, b \in 1..Len(seq) : a # b => seq[a] # seq[b]

\* C12: every merge request carries at least 2 pairwise distinct filenames,
\* all of them entries of the library when it was sent; with fewer than 2
\* names selected, or while a merge is loading, handleMerge starts no
\* request, and handleMergeClick calls nothing and leaves its state alone.
C12_MergeNeedsTwo ==
    /\ [](\A j \in JobIds :
             (jobs[j].pc # "idle" /\ jobs[j].kind = "merge")
             => /\ Len(jobs[j].filenames) >= 2
                /\ Distinct(jobs[j].filenames)
                /\ \A i \in 1..Len(jobs[j].filenames) :
                      jobs[j].filenames[i] \in jobs[j].reqLib)
    /\ [](LET click == handleMergeClick(mergeSelected, mergeName, mergeLoading, Now) IN
             /\ (Len(mergeSelected) < 2 \/ mergeLoading)
                => /\ click.onMerge = <<>>
                   /\ click.mergeSelected = mergeSelected
                   /\ click.mergeName = mergeName
             /\ click.onMerge # <<>>
                => /\ Len(click.onMerge[1].filenames) >= 2
                   /\ Distinct(click.onMerge[1].filenames))
    /\ [][(Len(mergeSelected) < 2 \/ mergeLoading)
           => \A j \in JobIds : jobs'[j].pc = "merge" => jobs[j].pc = "merge"]_vars

\* A merge request for two documents is pending while two names are selected
\* again: the merge button's handler returns at its guard.
C12_Witness ==
    \E j \in JobIds :
        /\ jobs[j].pc = "merge"
        /\ Len(jobs[j].filenames) = 2
        /\ mergeLoading
        /\ Len(mergeSelected) >= 2

\* The elements of a sequence.
Range(seq) == {seq[i] : i \in 1..Len(seq)}

\* Two library entries with the same name, display name and URL.
SameEntry(p, q) ==
    /\ p.name = q.name
    /\ p.displayName = q.displayName
    /\ p.objectUrl.scheme = q.objectUrl.scheme
    /\ p.objectUrl.ref = q.objectUrl.ref

\* C13: the step in which a merge succeeds leaves every source document's
\* library entry as it was (name, display name, URL) and adds only the
\* merged entry, whatever the output name.
C13_MergeKeepsSources ==
    [][\A j \in JobIds :
          (jobs[j].pc = "merge" /\ jobs'[j].pc = "poll" /\ JobMounted(j))
          => /\ \A i \in 1..Len(pdfLibrary) :
                   pdfLibrary[i].name \in Range(jobs[j].filenames)
                   => \E k \in 1..Len(pdfLibrary') :
                         SameEntry(pdfLibrary'[k], pdfLibrary[i])
             /\ \A k \in 1..Len(pdfLibrary') :
                   \/ \E i \in 1..Len(pdfLibrary) :
                         SameEntry(pdfLibrary'[k], pdfLibrary[i])
                   \/ pdfLibrary'[k].name = jobs'[j].serverName]_vars

\* C14: for every state and name, the state updates of handleDeletePdf (and
\* of the panel's handleDelete) applied twice give what they give applied
\* once, whether the second call comes from the render after the first or
\* from the same render; the server's delete is idempotent too; and a delete
\* of a name that is no longer in the library completes and changes neither
\* the library nor the selection.
C14_DeleteIdempotent ==
    /\ [](\A name \in Names :
             LET st == [pdfLibrary |-> pdfLibrary, mergeSelected |-> mergeSelected,
                        previewPdfName |-> previewPdfName]
                 once == DeletePdf(st, name, previewPdfName)
                 after == DeletePdf(once, name, once.previewPdfName)
                 same == DeletePdf(once, name, previewPdfName)
                 panel == handleDelete(mergeSelected, previewPdfName, name)
                 panel2 == handleDelete(panel.mergeSelected, panel.previewPdfName, name)
             IN  /\ after = once
                 /\ same = once
                 /\ panel2.mergeSelected = panel.mergeSelected
                 /\ panel2.previewPdfName = panel.previewPdfName
                 /\ ServerDelete(ServerDelete(srv, name), name) = ServerDelete(srv, name))
    /\ [][\A d \in DelIds :
             (/\ dels[d].pc = "req"
              /\ dels'[d].pc = "idle"
              /\ dels[d].name \notin LibNames(pdfLibrary))
             => /\ Len(pdfLibrary') = Len(pdfLibrary)
                /\ mergeSelected' = mergeSelected]_vars

\* A second delete of a document is pending after the first was served: the
\* name is absent from the library and from the server.
C14_Witness ==
    \E d \in DelIds :
        /\ dels[d].pc = "req"
        /\ dels[d].name \notin LibNames(pdfLibrary)
        /\ srv[dels[d].name] = "absent"
        /\ revoked # {}

\* A.pdf and B.pdf were merged into a third document (the merge succeeded).
MergedInto(d3) ==
    \E j \in JobIds :
        /\ jobs[j].kind = "merge"
        /\ jobs[j].pc \in {"poll", "stopped"}
        /\ jobs[j].serverName = d3
        /\ Range(jobs[j].filenames) = {"A.pdf", "B.pdf"}

\* The delete of A.pdf (uploaded with object URL 1) has completed.
DeletedD1 == 1 \in revoked

C16_OnePollerPerFile ==
    \A j, k \in JobIds :
        (j # k /\ jobs[j].pc = "poll" /\ jobs[k].pc = "poll")
        => jobs[j].serverName # jobs[k].serverName

\* C17: the library never holds two entries with the same server filename.
C17_NoDuplicates ==
    \A a, b \in 1..Len(pdfLibrary) :
        a # b => pdfLibrary[a].name # pdfLibrary[b].name

\* A merge whose output took the name of an existing entry has finished, or
\* a file already in the library was uploaded again and its poller added it.
C17_Witness ==
    /\ Len(pdfLibrary) = 2
    /\ \E j \in JobIds :
          /\ jobs[j].pc = "stopped"
          /\ jobs[j].serverName = "A.pdf"
          /\ jobs[j].inflight = 0
          /\ \E i \in 1..Len(pdfLibrary) :
                /\ pdfLibrary[i].name = "A.pdf"
                /\ \/ pdfLibrary[i].objectUrl.scheme = "http"
                   \/ jobs[j].kind = "upload" /\ pendingUploadRef = <<>>

\* The step is the failure of job j's upload request, or a status answer
\* `error` for its document.
FailureStep(j) ==
    \/ jobs[j].pc = "upload" /\ jobs'[j].pc = "stopped"
    \/ ~jobs[j].sawError /\ jobs'[j].sawError

\* C18: the step in which an upload or an ingestion fails leaves the library
\* entries of every other document, the merge selection and the chat
\* messages as they were.
C18_FailureIsLocal ==
    [][\A j \in JobIds :
          FailureStep(j)
          => /\ Len(pdfLibrary') = Len(pdfLibrary)
             /\ \A i \in 1..Len(pdfLibrary) :
                   pdfLibrary[i].name # jobs[j].file
                   => SameEntry(pdfLibrary'[i], pdfLibrary[i])
             /\ mergeSelected' = mergeSelected
             /\ messages' = messages]_vars

\* The ingestion of the uploaded A.pdf was reported as failed while B.pdf is
\* in the library and selected and an exchange is in the messages.
C18_Witness ==
    \E j \in JobIds :
        /\ jobs[j].sawError
        /\ jobs[j].file = "A.pdf"
        /\ uploadStatus = "error"
        /\ \E i \in 1..Len(pdfLibrary) : pdfLibrary[i].name = "B.pdf"
        /\ mergeSelected = <<"B.pdf">>
        /\ Len(messages) = 2

OtherKind(kind) == IF kind = "chat" THEN "translate" ELSE "chat"

\* The bytes the step's reader.read() returned to call c.
BytesRead(c) ==
    SubSeq(calls'[c].rcvd, Len(calls[c].rcvd) + 1, Len(calls'[c].rcvd))

\* C19: sendMessage and handleTranslate start reading with the same empty
\* answer, buffer and assistant message, and every read takes either of them
\* from the same local state to the same local state, appending the same
\* text to the assistant message: what the call did on a read is what the
\* loop of the other handler computes for it.
C19_TranslateParsesLikeChat ==
    /\ [](\A c \in CallIds :
            (calls[c].pc = "read" /\ calls[c].rcvd = <<>>)
            => /\ calls[c].fullAnswer = <<>>
               /\ calls[c].sseBuffer = <<>>
               /\ calls[c].decoder = <<>>
               /\ Mounted(c) => messages[Len(messages)] = AssistantMsg(<<>>))
    /\ [][\A c \in CallIds :
            (calls[c].pc = "read" /\ Len(calls'[c].rcvd) > Len(calls[c].rcvd))
            => LET r == ReadBody(OtherKind(calls[c].kind), calls[c],
                                 BytesRead(c))
               IN /\ calls'[c].fullAnswer = r.fullAnswer
                  /\ calls'[c].sseBuffer = r.sseBuffer
                  /\ calls'[c].decoder = r.decoder
                  /\ Mounted(c)
                     => messages' = AppendToLast(messages, r.appended)]_vars

\* A translation whose body ended after tokens were appended.
C19_Witness ==
    \E c \in CallIds :
        /\ calls[c].kind = "translate"
        /\ calls[c].ended = "eof"
        /\ calls[c].fullAnswer # <<>>
        /\ messages[Len(messages)] = AssistantMsg(calls[c].fullAnswer)

\* The exchange of call c is over and completed: neither the request nor a
\* read failed, the body carried its terminal marker, and there is an answer.
Completed(c) ==
    /\ calls[c].pc = "done"
    /\ calls[c].ended = "eof"
    /\ FirstDone(RefLines(c)) # 0
    /\ calls[c].fullAnswer # <<>>

\* C20: the session saves sent to the backend are exactly one per completed
\* exchange, each carrying the messages before the exchange, the user
\* message and the full answer; an exchange that failed, was cut off, had no
\* answer or is still running has no save, and neither has a new empty chat.
C20_OnlyCompletedSaved ==
    LET completed == {c \in CallIds : Completed(c)} IN
    /\ Len(saves) = Cardinality(completed)
    /\ \A c \in completed :
          \E i \in 1..Len(saves) :
              /\ saves[i].session_id = calls[c].sessionId
              /\ saves[i].messages = FinalMessages(c, calls[c].fullAnswer)

\* C21: every session that has been saved to the backend is also held by an
\* item of localStorage, with its id and messages.
C21_SessionsInLocalStorage ==
    \A i \in 1..Len(saves) :
        \E item \in localStorage :
            \E k \in 1..Len(item.sessions) :
                /\ item.sessions[k].id = saves[i].session_id
                /\ item.sessions[k].messages = saves[i].messages

\* The step in which the timer of submitEdit fires.
ResendFires == resend # <<>> /\ resend' = <<>>

\* C22: when the re-send of an edit of message i to text t runs, a request is
\* issued whose history is exactly the messages 0..i-1 and whose user
\* message is t, and the conversation displayed is those messages followed
\* by t and the placeholder of the new answer: nothing previously at index
\* >= i is left.
C22_EditResends ==
    [][ResendFires
       => LET e == resend[1] IN
          /\ \E c \in CallIds :
                /\ calls[c].pc = "idle"
                /\ calls'[c].pc = "fetch"
                /\ calls'[c].history = e.before
                /\ calls'[c].before = e.before
                /\ calls'[c].userMsg = UserMsg(e.text)
          /\ messages' = e.before \o <<UserMsg(e.text), AssistantMsg(<<>>)>>]_vars

Blobs == 1..(nextBlob - 1)

\* Blob URL b is the objectUrl of an entry of the library.
BlobInLibrary(lib, b) ==
    \E i \in 1..Len(lib) :
        /\ lib[i].objectUrl.scheme = "blob"
        /\ lib[i].objectUrl.ref = b

\* C23: a blob URL whose entry leaves the library (by delete, by replacement
\* on re-upload, or because the component's state is dropped at unmount) is
\* revoked by then.
C23_BlobsRevoked ==
    [][\A b \in Blobs :
          (BlobInLibrary(pdfLibrary, b) /\ ~BlobInLibrary(pdfLibrary', b))
          => b \in revoked']_vars

\* The step is one of the running stream c in its mounted component: a read,
\* or its end.
StreamStep(c) ==
    /\ calls[c].pc \in {"fetch", "read", "suggest"}
    /\ calls'[c] # calls[c]
    /\ Mounted(c)

\* The index in `messages` of the assistant placeholder created for call c.
Placeholder(c) == Len(calls[c].before) + 2

\* C24: a step of a running stream changes no message other than the
\* assistant placeholder created for that stream, and the tokens of a read
\* are appended to that placeholder.
C24_StreamWritesPlaceholder ==
    [][\A c \in CallIds :
          StreamStep(c)
          => /\ inst' = inst
             /\ Len(messages') = Len(messages)
             /\ \A i \in 1..Len(messages) :
                   i # Placeholder(c) => messages'[i] = messages[i]
             /\ Len(calls'[c].fullAnswer) > Len(calls[c].fullAnswer)
                => /\ Placeholder(c) <= Len(messages)
                   /\ messages'[Placeholder(c)].content
                        = messages[Placeholder(c)].content
                          \o SubSeq(calls'[c].fullAnswer,
                                    Len(calls[c].fullAnswer) + 1,
                                    Len(calls'[c].fullAnswer))]_vars

\* C25: no two sendMessage / handleTranslate calls of one component are
\* between their setLoading(true) and their finally block at the same time.
C25_OneStreamInFlight ==
    \A c, d \in CallIds :
        (c # d /\ Running(c) /\ Running(d)) => calls[c].comp # calls[d].comp

\* The step in which a status answer `done` reaches the poller of upload j.
ReportedDone(j) ==
    /\ jobs[j].kind = "upload"
    /\ JobMounted(j)
    /\ jobs'[j].inflight < jobs[j].inflight
    /\ jobs'[j].pc = "stopped"
    /\ jobs'[j].setStatus = "success"
    /\ ~jobs'[j].sawError

\* C26: every library entry that carries a blob URL has the display name of
\* the file its server filename was given for (the server keeps the name of
\* an uploaded file), and an upload gets its entry in the step in which its
\* ingestion is reported done.
C26_EntryPairsOwnFile ==
    /\ [](\A i \in 1..Len(pdfLibrary) :
             pdfLibrary[i].objectUrl.scheme = "blob"
             => pdfLibrary[i].displayName = pdfLibrary[i].name)
    /\ [][\A j \in JobIds :
             ReportedDone(j)
             => \E i \in 1..Len(pdfLibrary') :
                   /\ pdfLibrary'[i].name = jobs[j].serverName
                   /\ pdfLibrary'[i].displayName = jobs[j].file]_vars

\* The step is a callback of the poller of ingestion j: a firing of its
\* interval or the answer of one of its status requests.
PollerStep(j) ==
    /\ jobs[j].pc \in {"poll", "stopped"}
    /\ jobs'[j] # jobs[j]

\* C27: a poller callback changes uploadStatus only while its ingestion has
\* not reached its terminal status and is the most recently started one.
C27_TerminalStatusFinal ==
    [][\A j \in JobIds :
          (PollerStep(j) /\ uploadStatus' # uploadStatus)
          => /\ jobs[j].pc = "poll"
             /\ j = nJobs]_vars

SessionIds(ss) == {ss[i].id : i \in 1..Len(ss)}

\* The sessions of ss other than id, in order.
Remaining(ss, id) ==
    LET Keep(x) == x.id # id IN SelectSeq(ss, Keep)

\* C28: once the history is loaded the session list is non-empty and holds
\* the active session; a step that removes the active session activates the
\* first remaining one, or a fresh empty session when none remains, and a
\* step that removes another session leaves the active one as it is.
C28_ActiveSessionListed ==
    /\ [](~historyLoading
          => /\ sessions # <<>>
             /\ activeSessionId \in SessionIds(sessions))
    /\ [][\A id \in SessionIds(sessions) \ SessionIds(sessions') :
             IF id # activeSessionId
             THEN /\ activeSessionId' = activeSessionId
                  /\ sessions' = Remaining(sessions, id)
             ELSE IF Remaining(sessions, id) # <<>>
             THEN /\ activeSessionId' = Remaining(sessions, id)[1].id
                  /\ sessions' = Remaining(sessions, id)
             ELSE /\ Len(sessions') = 1
                  /\ sessions'[1].id = activeSessionId'
                  /\ sessions'[1].id \notin SessionIds(sessions)
                  /\ sessions'[1].messages = <<>>]_vars

\* The only session was deleted: a fresh empty session is the active one.
C28_Witness ==
    /\ ~historyLoading
    /\ Len(sessions) = 1
    /\ sessions[1].id = activeSessionId
    /\ sessions[1].id # 1
    /\ sessions[1].messages = <<>>
    /\ inst = 2
    /\ nextId = 3

\* C29: the title of every save request is the first user message of the
\* messages it carries, cut to 42 characters (with an ellipsis when longer).
C29_SavedTitleDerived ==
    \A i \in 1..Len(saves) :
        LET first == FirstUser(saves[i].messages) IN
        /\ first # 0
        /\ saves[i].title = TitleOf(saves[i].messages[first].content)

\* The step in which call c calls onSaveSession.
SaveStep(c) == calls'[c].saved > calls[c].saved

\* C30: when a call saves its exchange, the session-list update changes only
\* the session the call was started in, the save request (sent when that
\* session is still listed, and only then) names that session, and every
\* save request ever sent names the session of the call whose messages it
\* carries.
C30_SavedToOwnSession ==
    /\ [](\A i \in 1..Len(saves) :
             \E c \in CallIds :
                 /\ calls[c].saved > 0
                 /\ saves[i].session_id = calls[c].sessionId
                 /\ saves[i].messages = calls[c].savedMsgs)
    /\ [][\A c \in CallIds :
             SaveStep(c)
             => /\ Len(sessions') = Len(sessions)
                /\ \A k \in 1..Len(sessions) :
                      sessions[k].id # calls[c].sessionId
                      => sessions'[k] = sessions[k]
                /\ IF calls[c].sessionId \in SessionIds(sessions)
                   THEN /\ Len(saves') = Len(saves) + 1
                        /\ saves'[Len(saves')].session_id = calls[c].sessionId
                        /\ \E k \in 1..Len(sessions') :
                              /\ sessions'[k].id = calls[c].sessionId
                              /\ sessions'[k].messages = calls'[c].savedMsgs
                   ELSE saves' = saves]_vars

\* The exchange of a session was saved after the user had switched to
\* another session.
C30_Witness ==
    \E c \in CallIds :
        /\ calls[c].cancelled
        /\ calls[c].saved = 1
        /\ Len(saves) = 1
        /\ saves[1].session_id = calls[c].sessionId
        /\ calls[c].sessionId # activeSessionId
        /\ calls[c].sessionId \in SessionIds(sessions)

====
